---- MODULE Spec2Model ----
(***************************************************************************)
(* Model of the natural-language-to-SQL agent: the LangGraph pipeline of   *)
(* SQLAgent (agent.py), the SQL executor SQLTool (sql_tool.py) and the     *)
(* document retriever RAGTool (rag_tool.py).                               *)
(*                                                                         *)
(* Text is a sequence of one-element strings.  SQL text is modelled        *)
(* character by character; message texts are sequences of fragments, so    *)
(* that an f-string is the concatenation of its parts.  The backtick is    *)
(* written "BT".                                                           *)
(***************************************************************************)
EXTENDS Integers, Sequences, FiniteSets, TLC

VARIABLES
    pc,                         \* position in the graph of one call of query
    state,                      \* AgentState of the run in progress
    result,                     \* what query returned last
    runs,                       \* calls of query started so far
    rag_tool,                   \* FALSE: self.rag_tool is None
    use_embeddings_classifier,  \* SQLAgent.use_embeddings_classifier
    example_embeddings,         \* FALSE: self.example_embeddings is empty
    collection,                 \* ids of the documents in the vector store
    schema_cache,               \* SQLTool.schema_cache
    conns,                      \* database connections opened and not closed
    calls,                      \* collaborator calls made by the run, in order
    lastExec,                   \* the last direct call of SQLTool.execute_query
    probe                       \* a method called on its own: argument and return

vars == <<pc, state, result, runs, rag_tool, use_embeddings_classifier,
          example_embeddings, collection, schema_cache, conns, calls,
          lastExec, probe>>

(***************************************************************************)
(* Bounds.                                                                 *)
(***************************************************************************)
MaxRuns == 2
MaxLexemes == 3

(***************************************************************************)
(* Python str operations, on sequences.                                    *)
(***************************************************************************)
Whitespace == {" ", "\n"}

LowerCase == <<"a","b","c","d","e","f","g","h","i","j","k","l","m",
               "n","o","p","q","r","s","t","u","v","w","x","y","z">>

UpperCase == <<"A","B","C","D","E","F","G","H","I","J","K","L","M",
               "N","O","P","Q","R","S","T","U","V","W","X","Y","Z">>

\* what str.upper makes of one character: its capital for a letter a-z, the
\* two letters SS for the sharp s (written "eszett" here), itself otherwise
UpperChar(c) ==
    IF \E i \in 1..26 : LowerCase[i] = c
    THEN <<UpperCase[CHOOSE i \in 1..26 : LowerCase[i] = c]>>
    ELSE IF c = "eszett" THEN <<"S", "S">>
    ELSE <<c>>

RECURSIVE upper(_)
upper(s) == IF s = <<>> THEN <<>> ELSE UpperChar(Head(s)) \o upper(Tail(s))

SetMin(S) == CHOOSE m \in S : \A n \in S : m <= n

RECURSIVE lstrip(_)
lstrip(s) == IF s # <<>> /\ Head(s) \in Whitespace THEN lstrip(Tail(s)) ELSE s

RECURSIVE rstrip(_)
rstrip(s) ==
    IF s # <<>> /\ s[Len(s)] \in Whitespace
    THEN rstrip(SubSeq(s, 1, Len(s) - 1))
    ELSE s

strip(s) == rstrip(lstrip(s))

startswith(s, p) == Len(p) <= Len(s) /\ SubSeq(s, 1, Len(p)) = p

endswith(s, p) == Len(p) <= Len(s) /\ SubSeq(s, Len(s) - Len(p) + 1, Len(s)) = p

\* s.find(sub, start): the lowest 0-based index at or after start, or -1
find(s, sub, start) ==
    LET at == {i \in start..(Len(s) - Len(sub)) : SubSeq(s, i + 1, i + Len(sub)) = sub}
    IN  IF at = {} THEN -1 ELSE SetMin(at)

contains(s, sub) == find(s, sub, 0) # -1

\* s[a:b] with 0 <= a and 0 <= b
slice(s, a, b) == SubSeq(s, a + 1, IF b > Len(s) THEN Len(s) ELSE b)

RECURSIVE replace(_, _, _)
replace(s, sub, by) ==
    IF Len(s) < Len(sub) \/ sub = <<>> THEN s
    ELSE IF startswith(s, sub)
         THEN by \o replace(SubSeq(s, Len(sub) + 1, Len(s)), sub, by)
         ELSE <<Head(s)>> \o replace(Tail(s), sub, by)

\* s.split(): the maximal runs of non-whitespace
RECURSIVE split(_)
split(s) ==
    LET t == lstrip(s)
        ends == {i \in 1..Len(t) : t[i] \in Whitespace}
        n == IF ends = {} THEN Len(t) ELSE SetMin(ends) - 1
    IN  IF t = <<>> THEN <<>>
        ELSE <<SubSeq(t, 1, n)>> \o split(SubSeq(t, n + 1, Len(t)))

\* s.split(sep) for a one-element separator
RECURSIVE split_on(_, _)
split_on(s, sep) ==
    LET at == {i \in 1..Len(s) : s[i] = sep}
    IN  IF at = {} THEN <<s>>
        ELSE <<SubSeq(s, 1, SetMin(at) - 1)>>
             \o split_on(SubSeq(s, SetMin(at) + 1, Len(s)), sep)

RECURSIVE join(_, _)
join(sep, parts) ==
    IF parts = <<>> THEN <<>>
    ELSE IF Len(parts) = 1 THEN parts[1]
    ELSE parts[1] \o sep \o join(sep, Tail(parts))

RECURSIVE Flatten(_)
Flatten(parts) == IF parts = <<>> THEN <<>> ELSE Head(parts) \o Flatten(Tail(parts))

(***************************************************************************)
(* Words of SQL text.                                                      *)
(***************************************************************************)
kSELECT == <<"S","E","L","E","C","T">>
kDROP == <<"D","R","O","P">>
kDELETE == <<"D","E","L","E","T","E">>
kINSERT == <<"I","N","S","E","R","T">>
kUPDATE == <<"U","P","D","A","T","E">>
kALTER == <<"A","L","T","E","R">>
kCREATE == <<"C","R","E","A","T","E">>
kTRUNCATE == <<"T","R","U","N","C","A","T","E">>

(***************************************************************************)
(* sqlparse, as validate_sql uses it.                                      *)
(***************************************************************************)
\* sqlparse.parse(query): the statements of query.  A statement ends with its
\* ";" and the blanks after it; a rest that is only whitespace is no statement.
RECURSIVE SplitStatements(_, _, _)
SplitStatements(rest, cur, consume_ws) ==
    IF rest = <<>>
    THEN IF cur # <<>> /\ \E i \in 1..Len(cur) : cur[i] \notin Whitespace
         THEN <<cur>> ELSE <<>>
    ELSE LET c == Head(rest) IN
         IF consume_ws /\ c # " "
         THEN <<cur>> \o SplitStatements(Tail(rest), <<c>>, c = ";")
         ELSE SplitStatements(Tail(rest), Append(cur, c), consume_ws \/ c = ";")

sqlparse_parse(query) == SplitStatements(query, <<>>, FALSE)

Punctuation == {";", ".", ",", "*", "BT"}

\* the keywords sqlparse gives the type Keyword.DML
DMLKeywords == {kSELECT, kINSERT, kDELETE, kUPDATE,
                <<"U","P","S","E","R","T">>, <<"R","E","P","L","A","C","E">>,
                <<"M","E","R","G","E">>}

\* statement.token_first(skip_ws=True, skip_cm=True): [dml, value], where
\* dml says that the token's type is Keyword.DML.  A word is a maximal run of
\* word characters; a word followed by "." is a name.
token_first(statement) ==
    LET t == lstrip(statement)
        stops == {i \in 1..Len(t) : t[i] \in Whitespace \cup Punctuation}
        n == IF stops = {} THEN Len(t) ELSE SetMin(stops) - 1
        word == SubSeq(t, 1, n)
        after == lstrip(SubSeq(t, n + 1, Len(t)))
        dotted == after # <<>> /\ Head(after) = "."
    IN  IF t = <<>> THEN [none |-> TRUE, dml |-> FALSE, value |-> <<>>]
        ELSE IF n = 0 THEN [none |-> FALSE, dml |-> FALSE, value |-> <<Head(t)>>]
        ELSE [none |-> FALSE,
              dml |-> upper(word) \in DMLKeywords /\ ~dotted,
              value |-> word]

(***************************************************************************)
(* SQLTool.validate_sql and SQLTool.execute_query.                         *)
(***************************************************************************)
dangerous_keywords == <<kDROP, kDELETE, kINSERT, kUPDATE, kALTER, kCREATE, kTRUNCATE>>

\* the first keyword of the list found in the upper-cased text, or 0
FirstDangerous(query_upper) ==
    LET hit == {i \in 1..Len(dangerous_keywords) :
                    contains(query_upper, dangerous_keywords[i])}
    IN  IF hit = {} THEN 0 ELSE SetMin(hit)

\* validate_sql with the denylist looked up in the text as written
validate_sql_as_written(query) ==
    LET parsed == sqlparse_parse(query)
        first_token == token_first(parsed[1])
        k == FirstDangerous(query)
    IN  IF parsed = <<>>
        THEN [valid |-> FALSE, error |-> <<"Empty or invalid SQL query">>]
        ELSE IF first_token.none \/ ~first_token.dml
        THEN [valid |-> FALSE, error |-> <<"Query must be a DML statement">>]
        ELSE IF upper(first_token.value) # kSELECT
        THEN [valid |-> FALSE, error |-> <<"Only SELECT queries are allowed">>]
        ELSE IF k # 0
        THEN [valid |-> FALSE,
              error |-> <<"Dangerous keyword '">> \o dangerous_keywords[k]
                        \o <<"' detected. Only SELECT queries are allowed.">>]
        ELSE IF Len(parsed) > 1
        THEN [valid |-> FALSE, error |-> <<"Multiple SQL statements are not allowed">>]
        ELSE [valid |-> TRUE, error |-> <<>>]

\* validate_sql looking at the first statement only
validate_sql_first_statement(query) ==
    LET parsed == sqlparse_parse(query)
        first_token == token_first(parsed[1])
        k == FirstDangerous(upper(query))
    IN  IF parsed = <<>>
        THEN [valid |-> FALSE, error |-> <<"Empty or invalid SQL query">>]
        ELSE IF first_token.none \/ ~first_token.dml
        THEN [valid |-> FALSE, error |-> <<"Query must be a DML statement">>]
        ELSE IF upper(first_token.value) # kSELECT
        THEN [valid |-> FALSE, error |-> <<"Only SELECT queries are allowed">>]
        ELSE IF k # 0
        THEN [valid |-> FALSE,
              error |-> <<"Dangerous keyword '">> \o dangerous_keywords[k]
                        \o <<"' detected. Only SELECT queries are allowed.">>]
        ELSE [valid |-> TRUE, error |-> <<>>]

\* validate_sql letting any DML statement through
validate_sql_any_dml(query) ==
    LET parsed == sqlparse_parse(query)
        first_token == token_first(parsed[1])
        k == FirstDangerous(upper(query))
    IN  IF parsed = <<>>
        THEN [valid |-> FALSE, error |-> <<"Empty or invalid SQL query">>]
        ELSE IF first_token.none \/ ~first_token.dml
        THEN [valid |-> FALSE, error |-> <<"Query must be a DML statement">>]
        ELSE IF k # 0
        THEN [valid |-> FALSE,
              error |-> <<"Dangerous keyword '">> \o dangerous_keywords[k]
                        \o <<"' detected. Only SELECT queries are allowed.">>]
        ELSE IF Len(parsed) > 1
        THEN [valid |-> FALSE, error |-> <<"Multiple SQL statements are not allowed">>]
        ELSE [valid |-> TRUE, error |-> <<>>]

validate_sql(query) ==
    LET parsed == sqlparse_parse(query)
        first_token == token_first(parsed[1])
        k == FirstDangerous(upper(query))
    IN  IF parsed = <<>>
        THEN [valid |-> FALSE, error |-> <<"Empty or invalid SQL query">>]
        ELSE IF first_token.none \/ ~first_token.dml
        THEN [valid |-> FALSE, error |-> <<"Query must be a DML statement">>]
        ELSE IF upper(first_token.value) # kSELECT
        THEN [valid |-> FALSE, error |-> <<"Only SELECT queries are allowed">>]
        ELSE IF k # 0
        THEN [valid |-> FALSE,
              error |-> <<"Dangerous keyword '">> \o dangerous_keywords[k]
                        \o <<"' detected. Only SELECT queries are allowed.">>]
        ELSE IF Len(parsed) > 1
        THEN [valid |-> FALSE, error |-> <<"Multiple SQL statements are not allowed">>]
        ELSE [valid |-> TRUE, error |-> <<>>]

\* A result dict of execute_query.  present is FALSE for the empty dict {}.
NoSqlResults ==
    [present |-> FALSE, success |-> FALSE, error |-> <<>>, query |-> <<>>,
     columns |-> <<>>, rows |-> <<>>, results |-> <<>>]

SqlFailure(error, query) ==
    [present |-> TRUE, success |-> FALSE, error |-> error, query |-> query,
     columns |-> <<>>, rows |-> <<>>, results |-> <<>>]

SqlSuccess(query, columns, rows) ==
    [present |-> TRUE, success |-> TRUE, error |-> <<>>, query |-> query,
     columns |-> columns, rows |-> rows, results |-> <<>>]

\* execute_query(query) when the database answers db.  trace lists what reached
\* the database; leaked is 1 when the connection was opened and never closed.
execute_query(query, db) ==
    LET v == validate_sql(query) IN
    IF ~v.valid
    THEN [result |-> SqlFailure(v.error, query), trace |-> <<>>, leaked |-> 0]
    ELSE CASE db.kind = "ok" ->
                [result |-> SqlSuccess(query, db.columns, db.rows),
                 trace |-> <<"connect", "execute", "close">>, leaked |-> 0]
           [] db.kind = "connect_error" ->
                [result |-> SqlFailure(<<"Database error: ">> \o db.msg, query),
                 trace |-> <<"connect">>, leaked |-> 0]
           [] db.kind = "execute_error" ->
                [result |-> SqlFailure(<<"Database error: ">> \o db.msg, query),
                 trace |-> <<"connect", "execute">>, leaked |-> 1]
           [] db.kind = "unexpected_error" ->
                [result |-> SqlFailure(<<"Unexpected error: ">> \o db.msg, query),
                 trace |-> <<"connect">>, leaked |-> 0]

(***************************************************************************)
(* SQLTool.get_database_schema.                                            *)
(***************************************************************************)
NoSchemaCache == [none |-> TRUE, text |-> <<>>]

\* get_database_schema() with the cache as it is, when the database answers db.
\* Only PostgresError is caught: with any other exception raised is TRUE, msg
\* is its text, and nothing is returned.
get_database_schema(cache, db) ==
    IF ~cache.none /\ cache.text # <<>>
    THEN [text |-> cache.text, cache |-> cache, trace |-> <<>>, leaked |-> 0,
          raised |-> FALSE, msg |-> <<>>]
    ELSE CASE db.kind = "ok" ->
                [text |-> db.schema, cache |-> [none |-> FALSE, text |-> db.schema],
                 trace |-> <<"connect", "execute", "close">>, leaked |-> 0,
                 raised |-> FALSE, msg |-> <<>>]
           [] db.kind = "connect_error" ->
                [text |-> <<"Error retrieving database schema: ">> \o db.msg,
                 cache |-> cache, trace |-> <<"connect">>, leaked |-> 0,
                 raised |-> FALSE, msg |-> <<>>]
           [] db.kind = "execute_error" ->
                [text |-> <<"Error retrieving database schema: ">> \o db.msg,
                 cache |-> cache, trace |-> <<"connect", "execute">>, leaked |-> 1,
                 raised |-> FALSE, msg |-> <<>>]
           [] db.kind = "unexpected_error" ->
                [text |-> <<>>, cache |-> cache, trace |-> <<"connect">>, leaked |-> 0,
                 raised |-> TRUE, msg |-> db.msg]

(***************************************************************************)
(* RAGTool.search and RAGTool.get_document_by_title.                       *)
(***************************************************************************)
NoRagResults ==
    [present |-> FALSE, success |-> FALSE, error |-> <<>>, documents |-> <<>>,
     metadatas |-> <<>>, similarities |-> <<>>, count |-> 0]

RagFailure(error) ==
    [present |-> TRUE, success |-> FALSE, error |-> error, documents |-> <<>>,
     metadatas |-> <<>>, similarities |-> <<>>, count |-> 0]

\* the text and the metadata stored under an id (initialize_vector_store)
DocText(id) == <<"summary of ">> \o id

DocMeta(id) == [title |-> id]

\* search(query, top_k): emb is the outcome of embed_query, store that of
\* collection.query (hits: ids with cosine distances in percent, nearest first)
search(emb, store) ==
    IF emb.kind = "raise"
    THEN RagFailure(<<"Error searching documents: ">> \o emb.msg)
    ELSE IF store.kind = "raise"
    THEN RagFailure(<<"Error searching documents: ">> \o store.msg)
    ELSE [present |-> TRUE, success |-> TRUE, error |-> <<>>,
          documents |-> [i \in 1..Len(store.hits) |-> DocText(store.hits[i].id)],
          metadatas |-> [i \in 1..Len(store.hits) |-> DocMeta(store.hits[i].id)],
          similarities |-> [i \in 1..Len(store.hits) |-> 100 - store.hits[i].distance],
          count |-> Len(store.hits)]

\* get_document_by_title(title): store is the outcome of collection.get
get_document_by_title(title, ids, store) ==
    LET normalized_title == replace(title, <<" ">>, <<"_">>) IN
    IF store = "raise"
    THEN [success |-> FALSE, error |-> <<"Error retrieving document: ">>,
          document |-> <<>>, metadata |-> DocMeta(<<>>)]
    ELSE IF normalized_title \in ids
    THEN [success |-> TRUE, error |-> <<>>,
          document |-> DocText(normalized_title),
          metadata |-> DocMeta(normalized_title)]
    ELSE [success |-> FALSE,
          error |-> <<"Document '">> \o title \o <<"' not found in vector store">>,
          document |-> <<>>, metadata |-> DocMeta(<<>>)]

(***************************************************************************)
(* SQLAgent: the state and the nodes of the graph.                         *)
(***************************************************************************)
initial_state(user_query) ==
    [user_query |-> user_query, query_type |-> "", sql_query |-> <<>>,
     sql_results |-> NoSqlResults, rag_results |-> NoRagResults,
     retrieved_docs |-> <<>>, formatted_response |-> <<>>, error |-> <<>>]

\* no run in progress
NoState == initial_state(<<>>)

\* the dict query returns
final_result(st) ==
    [present |-> TRUE, response |-> st.formatted_response,
     query_type |-> st.query_type, sql_query |-> st.sql_query,
     results |-> st.sql_results, rag_results |-> st.rag_results,
     error |-> st.error]

NoResult == [final_result(NoState) EXCEPT !.present = FALSE]

\* what a collaborator answered: a text, or an exception with its message
Text(t) == [kind |-> "text", text |-> t, msg |-> <<>>]

Raise(m) == [kind |-> "raise", text |-> <<>>, msg |-> m]

\* the answer of a tool that returns a tagged dict, as the log keeps it
Tagged(r) == [kind |-> IF r.success THEN "ok" ELSE "fail", text |-> <<>>, msg |-> r.error]

\* an entry of the log of calls: the collaborator, the method, its argument
\* and what it answered
Call(sys, op, arg, ret) == [sys |-> sys, op |-> op, arg |-> arg, ret |-> ret]

kSQL == <<"S","Q","L">>
kRAG == <<"R","A","G">>
kHYBRID == <<"H","Y","B","R","I","D">>

\* _classify_query asking the classifier whether or not there is a RAG tool
classify_query_always_asking(st, has_rag, llm) ==
    IF llm.kind = "raise" THEN [st EXCEPT !.query_type = "SQL"]
    ELSE LET response == upper(strip(llm.text)) IN
         [st EXCEPT !.query_type =
            IF contains(response, kHYBRID) THEN "HYBRID"
            ELSE IF contains(response, kRAG) THEN "RAG"
            ELSE IF contains(response, kSQL) THEN "SQL"
            ELSE "SQL"]

\* _classify_query recording a failure of the classifier as the error of the run
classify_query_surfacing(st, has_rag, llm) ==
    IF ~has_rag THEN [st EXCEPT !.query_type = "SQL"]
    ELSE IF llm.kind = "raise"
    THEN [st EXCEPT !.error = <<"Error in query classification: ">> \o llm.msg]
    ELSE LET response == upper(strip(llm.text)) IN
         [st EXCEPT !.query_type =
            IF contains(response, kHYBRID) THEN "HYBRID"
            ELSE IF contains(response, kRAG) THEN "RAG"
            ELSE IF contains(response, kSQL) THEN "SQL"
            ELSE "SQL"]

\* _classify_query looking for the tokens in the order SQL, RAG, HYBRID
classify_query_sql_first(st, has_rag, llm) ==
    IF ~has_rag THEN [st EXCEPT !.query_type = "SQL"]
    ELSE IF llm.kind = "raise" THEN [st EXCEPT !.query_type = "SQL"]
    ELSE LET response == upper(strip(llm.text)) IN
         [st EXCEPT !.query_type =
            IF contains(response, kSQL) THEN "SQL"
            ELSE IF contains(response, kRAG) THEN "RAG"
            ELSE IF contains(response, kHYBRID) THEN "HYBRID"
            ELSE "SQL"]

\* _classify_query: llm is the outcome of classifier_llm.invoke
classify_query(st, has_rag, llm) ==
    IF ~has_rag THEN [st EXCEPT !.query_type = "SQL"]
    ELSE IF llm.kind = "raise" THEN [st EXCEPT !.query_type = "SQL"]
    ELSE LET response == upper(strip(llm.text)) IN
         [st EXCEPT !.query_type =
            IF contains(response, kHYBRID) THEN "HYBRID"
            ELSE IF contains(response, kRAG) THEN "RAG"
            ELSE IF contains(response, kSQL) THEN "SQL"
            ELSE "SQL"]

Categories == <<"SQL", "RAG", "HYBRID">>

SeqMax(s) == CHOOSE m \in {s[i] : i \in 1..Len(s)} : \A i \in 1..Len(s) : s[i] <= m

\* max over the scores giving, of the categories that tie, the last
best_category_last(category_scores) ==
    Categories[CHOOSE i \in 1..3 :
        /\ \A j \in 1..3 : category_scores[Categories[j]] <= category_scores[Categories[i]]
        /\ \A j \in 1..3 : category_scores[Categories[j]] = category_scores[Categories[i]]
                              => j <= i]

\* max(category_scores, key=category_scores.get): the first category, in the
\* order of the dict, whose score is the highest
best_category(category_scores) ==
    Categories[SetMin({i \in 1..3 :
        \A j \in 1..3 : category_scores[Categories[j]] <= category_scores[Categories[i]]})]

\* _classify_query_embeddings: emb is the outcome of embed_query, sims the
\* cosine similarities of the query with the examples of each category
classify_query_embeddings(st, has_rag, has_examples, emb, sims) ==
    IF ~has_rag \/ ~has_examples THEN [st EXCEPT !.query_type = "SQL"]
    ELSE IF emb.kind = "raise" THEN [st EXCEPT !.query_type = "SQL"]
    ELSE LET category_scores ==
                [c \in {"SQL", "RAG", "HYBRID"} |->
                    IF sims[c] = <<>> THEN 0 ELSE SeqMax(sims[c])]
         IN  [st EXCEPT !.query_type = best_category(category_scores)]

\* _route_query taking an intent it does not know for SQL
route_query_defaulting(st) ==
    CASE st.query_type = "RAG" -> "rag"
      [] st.query_type = "HYBRID" -> "hybrid"
      [] OTHER -> "sql"

route_query(st) ==
    CASE st.query_type = "SQL" -> "sql"
      [] st.query_type = "RAG" -> "rag"
      [] st.query_type = "HYBRID" -> "hybrid"
      [] OTHER -> "error"

\* the edges of classify_query sending a HYBRID run to retrieval at once
ClassifyEdges_hybrid_retrieving(label) ==
    CASE label = "sql" -> "generate_sql"
      [] label = "rag" -> "retrieve_documents"
      [] label = "hybrid" -> "retrieve_documents"
      [] label = "error" -> "handle_error"

\* the edges of classify_query sending every run to the SQL generation
ClassifyEdges_rag_generating(label) ==
    CASE label = "sql" -> "generate_sql"
      [] label = "rag" -> "generate_sql"
      [] label = "hybrid" -> "generate_sql"
      [] label = "error" -> "handle_error"

\* the conditional edges of classify_query
ClassifyEdges(label) ==
    CASE label = "sql" -> "generate_sql"
      [] label = "rag" -> "retrieve_documents"
      [] label = "hybrid" -> "generate_sql"
      [] label = "error" -> "handle_error"

\* while sql_query.endswith(";"): sql_query = sql_query[:-1].strip()
RECURSIVE StripSemicolons(_)
StripSemicolons(s) ==
    IF endswith(s, <<";">>) THEN StripSemicolons(strip(SubSeq(s, 1, Len(s) - 1))) ELSE s

\* _clean_sql_response, step by step.  The markdown code block:
RemoveFences(s0) ==
    LET fence == <<"BT","BT","BT">>
        fence_sql == fence \o <<"s","q","l">>
        start == find(s0, fence_sql, 0) + 6
        end == find(s0, fence, start)
    IN  IF contains(s0, fence_sql)
        THEN IF end # -1 THEN slice(s0, start, end) ELSE s0
        ELSE IF contains(s0, fence)
        THEN replace(replace(s0, fence_sql, <<>>), fence, <<>>)
        ELSE s0

\* " ".join(sql_query.split())
CollapseWhitespace(s) == join(<<" ">>, split(s))

\* the explanatory text: from the first line that starts with SELECT on
FromSelectLine(s4) ==
    LET lines == split_on(s4, "\n")
        sel == {i \in 1..Len(lines) : startswith(upper(strip(lines[i])), kSELECT)}
    IN  IF contains(s4, <<"\n","\n">>) \/ contains(s4, <<".", " ">>)
        THEN IF sel # {}
             THEN join(<<" ">>, SubSeq(lines, SetMin(sel), Len(lines)))
             ELSE s4
        ELSE s4

\* what precedes the first SELECT, in any case of letters
FromSelect(s5) ==
    LET select_pos == find(upper(s5), kSELECT, 0) IN
    IF startswith(s5, kSELECT) THEN s5
    ELSE IF select_pos # -1 THEN slice(s5, select_pos, Len(s5))
    ELSE s5

clean_sql_response(raw) ==
    FromSelect(FromSelectLine(CollapseWhitespace(
        StripSemicolons(strip(RemoveFences(strip(raw)))))))

\* _generate_sql keeping an empty statement without recording an error
StoreSql_silent(st, sql_query) == [st EXCEPT !.sql_query = sql_query]

\* _generate_sql: schema is what get_database_schema returned (it goes into
\* the prompt), llm the outcome of sql_llm.invoke
StoreSql(st, sql_query) ==
    IF sql_query = <<>>
    THEN [st EXCEPT !.sql_query = sql_query,
                    !.error = <<"SQL model returned empty response">>]
    ELSE [st EXCEPT !.sql_query = sql_query]

generate_sql(st, llm) ==
    IF llm.kind = "raise"
    THEN [st EXCEPT !.error = <<"Error generating SQL: ">> \o llm.msg]
    ELSE StoreSql(st, clean_sql_response(llm.text))

\* _check_sql_generation sending whatever was generated to the executor
check_sql_generation_executing(st) == "execute"

check_sql_generation(st) ==
    IF st.error # <<>> THEN "error"
    ELSE IF st.sql_query # <<>> THEN "execute"
    ELSE "error"

\* the edges of generate_sql trying the generation again after a failure
GenerateEdges_retrying(label) ==
    CASE label = "execute" -> "execute_sql"
      [] label = "error" -> "generate_sql"

\* the conditional edges of generate_sql
GenerateEdges(label) ==
    CASE label = "execute" -> "execute_sql"
      [] label = "error" -> "handle_error"

\* dict(zip(columns, row)): a later column of the same name wins
RowDict(columns, row) ==
    [c \in {columns[i] : i \in 1..Len(columns)} |->
        row[CHOOSE i \in 1..Len(columns) :
                /\ columns[i] = c
                /\ \A j \in 1..Len(columns) : columns[j] = c => j <= i]]

\* the rows of a result of execute_query, as a list of dicts
WithRowDicts(r) ==
    IF r.success /\ r.columns # <<>> /\ r.rows # <<>>
    THEN [r EXCEPT !.results =
            [i \in 1..Len(r.rows) |-> RowDict(r.columns, r.rows[i])]]
    ELSE [r EXCEPT !.results = <<>>]

StoreSqlResults(st, results) ==
    IF ~results.success
    THEN [st EXCEPT !.sql_results = results, !.error = results.error]
    ELSE [st EXCEPT !.sql_results = results]

\* _execute_sql, once execute_query has returned r.  execute_query catches
\* every Exception itself, so the except branch has nothing to catch.
execute_sql(st, r) == StoreSqlResults(st, WithRowDicts(r))

\* _check_sql_execution taking a HYBRID run for an SQL run
check_sql_execution_sql_only(st) ==
    IF st.error # <<>> THEN "error"
    ELSE IF st.sql_results.present /\ st.sql_results.success
    THEN "format"
    ELSE "error"

\* _check_sql_execution going on whatever execute_query answered
check_sql_execution_going_on(st) ==
    IF st.query_type = "HYBRID" THEN "rag" ELSE "format"

check_sql_execution(st) ==
    IF st.error # <<>> THEN "error"
    ELSE IF st.sql_results.present /\ st.sql_results.success
    THEN IF st.query_type = "HYBRID" THEN "rag" ELSE "format"
    ELSE "error"

\* the conditional edges of execute_sql
ExecuteEdges(label) ==
    CASE label = "format" -> "format_response"
      [] label = "rag" -> "retrieve_documents"
      [] label = "error" -> "handle_error"

\* a column value: a str, an int or None, with its text
StrValue(v) == [t |-> "str", v |-> v]
IntValue(v) == [t |-> "int", v |-> v]
NoneValue == [t |-> "none", v |-> <<>>]

Truthy(x) ==
    CASE x.t = "str" -> x.v # <<>>
      [] x.t = "int" -> x.v # <<"0">>
      [] x.t = "none" -> FALSE

\* the loop over the rows taking the titulo of every row that has one
RECURSIVE TitlesOfAnyValue(_)
TitlesOfAnyValue(results) ==
    IF results = <<>> THEN <<>>
    ELSE LET row == Head(results) IN
         (IF "titulo" \in DOMAIN row
          THEN <<row["titulo"].v>> ELSE <<>>) \o TitlesOfAnyValue(Tail(results))

RECURSIVE TitlesOf(_)
TitlesOf(results) ==
    IF results = <<>> THEN <<>>
    ELSE LET row == Head(results) IN
         (IF "titulo" \in DOMAIN row /\ Truthy(row["titulo"])
          THEN <<row["titulo"].v>> ELSE <<>>) \o TitlesOf(Tail(results))

\* _extract_titles_from_sql_results
extract_titles_from_sql_results(st) ==
    IF ~st.sql_results.present \/ ~st.sql_results.success THEN <<>>
    ELSE TitlesOf(st.sql_results.results)

\* one turn of the loop recording a document found by its key with no
\* similarity of its own
ForTitle_exact_unscored(acc, got, search_result) ==
    IF got.success
    THEN [documents |-> Append(acc.documents, got.document),
          metadatas |-> Append(acc.metadatas, got.metadata),
          similarities |-> Append(acc.similarities, 0)]
    ELSE IF search_result.success /\ search_result.documents # <<>>
    THEN [documents |-> acc.documents \o search_result.documents,
          metadatas |-> acc.metadatas \o search_result.metadatas,
          similarities |-> acc.similarities \o search_result.similarities]
    ELSE acc

\* _retrieve_documents_by_titles: outs[i] holds, for the i-th title, the
\* outcomes of collection.get and, for the search, of embed_query and
\* collection.query
\* one turn of the loop: got is what get_document_by_title returned and
\* search_result what search(title, top_k=1) returns when that was a miss
ForTitle(acc, got, search_result) ==
    IF got.success
    THEN [documents |-> Append(acc.documents, got.document),
          metadatas |-> Append(acc.metadatas, got.metadata),
          similarities |-> Append(acc.similarities, 100)]
    ELSE IF search_result.success /\ search_result.documents # <<>>
    THEN [documents |-> acc.documents \o search_result.documents,
          metadatas |-> acc.metadatas \o search_result.metadatas,
          similarities |-> acc.similarities \o search_result.similarities]
    ELSE acc

\* the loop over the titles giving up at the first title that yields nothing
RECURSIVE ByTitles_stopping(_, _, _, _)
ByTitles_stopping(titles, ids, outs, acc) ==
    IF titles = <<>> THEN acc
    ELSE LET next == ForTitle(acc, get_document_by_title(Head(titles), ids, Head(outs).get),
                               search(Head(outs).emb, Head(outs).store))
         IN IF next = acc THEN acc
            ELSE ByTitles_stopping(Tail(titles), ids, Tail(outs), next)

RECURSIVE ByTitles(_, _, _, _)
ByTitles(titles, ids, outs, acc) ==
    IF titles = <<>> THEN acc
    ELSE ByTitles(Tail(titles), ids, Tail(outs),
                  ForTitle(acc, get_document_by_title(Head(titles), ids, Head(outs).get),
                           search(Head(outs).emb, Head(outs).store)))

ByTitlesResult(all) ==
    IF all.documents # <<>>
    THEN [present |-> TRUE, success |-> TRUE, error |-> <<>>,
          documents |-> all.documents, metadatas |-> all.metadatas,
          similarities |-> all.similarities, count |-> Len(all.documents)]
    ELSE RagFailure(<<"No documents found for the specified titles">>)

retrieve_documents_by_titles(titles, ids, outs) ==
    ByTitlesResult(ByTitles(titles, ids, outs,
        [documents |-> <<>>, metadatas |-> <<>>, similarities |-> <<>>]))

\* one turn of the loop searching for the title whether or not the lookup
\* found it
TitleCalls_always_searching(title, got, search_result) ==
    <<Call("rag_tool", "get_document_by_title", title, Tagged(got)),
      Call("rag_tool", "search", title, Tagged(search_result))>>

\* the calls one turn of the loop makes of the document store
TitleCalls(title, got, search_result) ==
    <<Call("rag_tool", "get_document_by_title", title, Tagged(got))>>
    \o (IF got.success THEN <<>>
        ELSE <<Call("rag_tool", "search", title, Tagged(search_result))>>)

\* the calls _retrieve_documents_by_titles makes of the document store
RECURSIVE ByTitlesCalls(_, _, _)
ByTitlesCalls(titles, ids, outs) ==
    IF titles = <<>> THEN <<>>
    ELSE TitleCalls(Head(titles),
                    get_document_by_title(Head(titles), ids, Head(outs).get),
                    search(Head(outs).emb, Head(outs).store))
         \o ByTitlesCalls(Tail(titles), ids, Tail(outs))

\* _retrieve_documents with a failed retrieval recorded as an error whatever
\* the query type
retrieve_documents_fatal(st, has_rag, rag_results) ==
    IF ~has_rag THEN [st EXCEPT !.error = <<"RAG functionality not available">>]
    ELSE IF rag_results.success
    THEN [st EXCEPT !.rag_results = rag_results,
                    !.retrieved_docs = rag_results.documents]
    ELSE [st EXCEPT !.rag_results = rag_results,
                    !.error = rag_results.error]

\* _retrieve_documents turning a HYBRID run whose retrieval failed into an SQL
\* run
retrieve_documents_downgrading(st, has_rag, rag_results) ==
    IF ~has_rag THEN [st EXCEPT !.error = <<"RAG functionality not available">>]
    ELSE IF rag_results.success
    THEN [st EXCEPT !.rag_results = rag_results,
                    !.retrieved_docs = rag_results.documents]
    ELSE IF st.query_type = "RAG"
    THEN [st EXCEPT !.rag_results = rag_results,
                    !.error = rag_results.error]
    ELSE [st EXCEPT !.rag_results = rag_results, !.retrieved_docs = <<>>,
                    !.query_type = "SQL"]

\* _retrieve_documents, once the document store has answered rag_results.
\* search and get_document_by_title catch every Exception themselves, so the
\* except branch of _retrieve_documents has nothing to catch.
retrieve_documents(st, has_rag, rag_results) ==
    IF ~has_rag THEN [st EXCEPT !.error = <<"RAG functionality not available">>]
    ELSE IF rag_results.success
    THEN [st EXCEPT !.rag_results = rag_results,
                    !.retrieved_docs = rag_results.documents]
    ELSE IF st.query_type = "RAG"
    THEN [st EXCEPT !.rag_results = rag_results,
                    !.error = rag_results.error]
    ELSE [st EXCEPT !.rag_results = rag_results, !.retrieved_docs = <<>>]

\* the parts of the context _format_response puts into the prompt
context_parts(st) ==
    (IF st.sql_results.present /\ st.sql_results.success THEN <<"sql">> ELSE <<>>)
    \o (IF st.retrieved_docs # <<>> THEN <<"documents">> ELSE <<>>)

\* _format_response: llm is the outcome of conversation_llm.invoke
format_response(st, llm) ==
    IF llm.kind = "raise"
    THEN [st EXCEPT !.error = <<"Error formatting response: ">> \o llm.msg]
    ELSE [st EXCEPT !.formatted_response = strip(llm.text)]

\* the text _handle_error renders
Apology(error_message) ==
    <<"I encountered an error while processing your request:", "\n", "\n", "(x) ">>
    \o error_message
    \o <<"\n", "\n", "Please try rephrasing your question or ask something else.">>

\* _handle_error dropping the failed execution result with the answer
handle_error_resetting(st) ==
    [st EXCEPT !.formatted_response = strip(Apology(st.error)),
               !.sql_results = NoSqlResults]

handle_error(st) == [st EXCEPT !.formatted_response = strip(Apology(st.error))]

(***************************************************************************)
(* What the collaborators may answer.                                      *)
(***************************************************************************)
UserQueries ==
    {<<"How many users are registered?">>, <<"What is the most viewed movie about?">>}

\* classifier_llm.invoke
ClassifierOutcomes ==
    {Text(kSQL), Text(<<" ","r","a","g","\n">>), Text(kHYBRID),
     Text(kRAG \o <<" ">> \o kHYBRID \o <<" ">> \o kSQL), Text(<<>>),
     Text(<<"n","o">>), Raise(<<"connection refused">>)}

SelectX == kSELECT \o <<" ", "x">>

\* sql_llm.invoke
SqlLlmOutcomes ==
    {Text(SelectX),
     Text(<<"BT","BT","BT","s","q","l","\n">> \o SelectX \o <<";","\n","BT","BT","BT">>),
     Text(<<"O","k",".", " ">> \o <<"s","e","l","e","c","t"," ","x",";">>),
     Text(<<" ", ";">>),
     Text(kDROP \o <<" ","x">>),
     Text(SelectX \o <<";"," ">> \o SelectX),
     Raise(<<"connection refused">>)}

\* conversation_llm.invoke
ConversationOutcomes ==
    {Text(<<" ", "There are 42 users.", "\n">>), Text(<<" ">>),
     Raise(<<"connection refused">>)}

Alpha == <<"Alpha">>
AventurasGalacticas == <<"Aventuras", " ", "Galacticas">>
TerrorNocturno == <<"Terror", " ", "Nocturno">>

\* what cursor.execute and fetchall give for a statement
ResultSets ==
    {[columns |-> <<"count">>, rows |-> << <<IntValue(<<"42">>)>> >>],
     [columns |-> <<"titulo", "views">>, rows |-> <<>>],
     [columns |-> <<"titulo", "views">>,
      rows |-> << <<StrValue(TerrorNocturno), IntValue(<<"5">>)>>,
                  <<StrValue(AventurasGalacticas), IntValue(<<"3">>)>> >>],
     [columns |-> <<"titulo", "views">>,
      rows |-> << <<NoneValue, IntValue(<<"9">>)>>,
                  <<StrValue(Alpha), IntValue(<<"0">>)>>,
                  <<StrValue(<<>>), IntValue(<<"1">>)>> >>]}

\* the database, for execute_query
DbOutcomes ==
    {[kind |-> "ok", columns |-> rs.columns, rows |-> rs.rows, msg |-> <<>>] :
        rs \in ResultSets}
    \cup {[kind |-> k, columns |-> <<>>, rows |-> <<>>,
           msg |-> <<"server closed the connection">>] :
            k \in {"connect_error", "execute_error", "unexpected_error"}}

SchemaTexts == {<<>>, <<"CREATE TABLE usuarios (", "  id INTEGER PRIMARY KEY", ");">>}

\* the database, for get_database_schema
SchemaOutcomes ==
    {[kind |-> "ok", schema |-> t, msg |-> <<>>] : t \in SchemaTexts}
    \cup {[kind |-> k, schema |-> <<>>, msg |-> <<"server closed the connection">>] :
            k \in {"connect_error", "execute_error", "unexpected_error"}}

\* the vector store: empty, or holding two summaries
Collections == {{}, {Alpha, <<"Aventuras", "_", "Galacticas">>}}

\* embed_query
EmbOutcomes ==
    {[kind |-> "ok", msg |-> <<>>], [kind |-> "raise", msg |-> <<"connection refused">>]}

\* cosine distances, in percent
Distances == {9, 50}

\* collection.query(n_results=top_k): the nearest documents, nearest first
Hits(ids, top_k) ==
    LET n == IF Cardinality(ids) < top_k THEN Cardinality(ids) ELSE top_k IN
    {h \in [1..n -> [id : ids, distance : Distances]] :
        \A i, j \in 1..n : i < j => /\ h[i].id # h[j].id
                                    /\ h[i].distance <= h[j].distance}

StoreOutcomes(ids, top_k) ==
    {[kind |-> "ok", hits |-> h, msg |-> <<>>] : h \in Hits(ids, top_k)}
    \cup {[kind |-> "raise", hits |-> <<>>, msg |-> <<"index unavailable">>]}

\* the search of a title asking for the three nearest documents
TitleOutcomes_top3(ids) ==
    [get : {"ok", "raise"}, emb : EmbOutcomes, store : StoreOutcomes(ids, 3)]

\* for one title: collection.get, then embed_query and collection.query
TitleOutcomes(ids) ==
    [get : {"ok", "raise"}, emb : EmbOutcomes, store : StoreOutcomes(ids, 1)]

\* similarities of the query with the two examples kept per category
MaxSim == 1

ExampleSims == [{"SQL", "RAG", "HYBRID"} -> [1..2 -> 0..MaxSim]]

(***************************************************************************)
(* The pipeline: query, the nodes with their edges, and the return.        *)
(***************************************************************************)
\* execute_query not yet called on query
NoExec(query) ==
    [present |-> FALSE, query |-> query, result |-> NoSqlResults, trace |-> <<>>]

\* the method op about to be called on arg; once called, n is 1 and ret is what
\* it returned
Probe(op, arg) == [op |-> op, arg |-> arg, ret |-> <<>>, first |-> <<>>, n |-> 0]

NoProbe == Probe("", <<>>)

toolVars == <<rag_tool, use_embeddings_classifier, example_embeddings, collection>>

Init ==
    /\ pc = "idle"
    /\ state = NoState
    /\ result = NoResult
    /\ runs = 0
    /\ rag_tool \in BOOLEAN
    /\ use_embeddings_classifier \in BOOLEAN
    /\ example_embeddings \in BOOLEAN
    /\ example_embeddings => (rag_tool /\ use_embeddings_classifier)
    /\ collection \in Collections
    /\ ~rag_tool => collection = {}
    /\ schema_cache = NoSchemaCache
    /\ conns = 0
    /\ calls = <<>>
    /\ lastExec = NoExec(<<>>)
    /\ probe = NoProbe

\* query(user_query), up to graph.invoke
Query ==
    /\ pc = "idle"
    /\ runs < MaxRuns
    /\ \E q \in UserQueries : state' = initial_state(q)
    /\ result' = NoResult
    /\ calls' = <<>>
    /\ runs' = runs + 1
    /\ pc' = "classify_query"
    /\ UNCHANGED <<toolVars, schema_cache, conns, lastExec, probe>>

ClassifyQuery ==
    /\ pc = "classify_query"
    /\ ~use_embeddings_classifier
    /\ \E llm \in ClassifierOutcomes :
         \E st \in {classify_query(state, rag_tool, llm)} :
            /\ state' = st
            /\ pc' = ClassifyEdges(route_query(st))
            /\ calls' = IF rag_tool
                        THEN Append(calls, Call("classifier_llm", "invoke", <<>>, llm))
                        ELSE calls
    /\ UNCHANGED <<result, runs, toolVars, schema_cache, conns, lastExec, probe>>

ClassifyQueryEmbeddings ==
    /\ pc = "classify_query"
    /\ use_embeddings_classifier
    /\ \E emb \in EmbOutcomes, sims \in ExampleSims :
         \E st \in {classify_query_embeddings(state, rag_tool, example_embeddings,
                                              emb, sims)} :
            /\ state' = st
            /\ pc' = ClassifyEdges(route_query(st))
            /\ calls' = IF rag_tool /\ example_embeddings
                        THEN Append(calls, Call("embeddings", "embed_query",
                                                state.user_query, emb))
                        ELSE calls
    /\ UNCHANGED <<result, runs, toolVars, schema_cache, conns, lastExec, probe>>

GenerateSql ==
    /\ pc = "generate_sql"
    /\ \E db \in SchemaOutcomes, llm \in SqlLlmOutcomes :
         \E g \in {get_database_schema(schema_cache, db)},
            st \in {generate_sql(state, llm)} :
            /\ schema_cache' = g.cache
            /\ conns' = conns + g.leaked
            /\ IF g.raised
               THEN \* the call of get_database_schema is outside the try
                    /\ state' = state
                    /\ calls' = Append(calls, Call("sql_tool", "get_database_schema",
                                                   <<>>, Raise(g.msg)))
                    /\ pc' = "raised"
               ELSE /\ state' = st
                    /\ calls' = calls \o <<Call("sql_tool", "get_database_schema", <<>>,
                                                Text(g.text)),
                                           Call("sql_llm", "invoke", g.text, llm)>>
                    /\ pc' = GenerateEdges(check_sql_generation(st))
    /\ UNCHANGED <<result, runs, toolVars, lastExec, probe>>

ExecuteSql ==
    /\ pc = "execute_sql"
    /\ \E db \in DbOutcomes :
         \E x \in {execute_query(state.sql_query, db)} :
            \E st \in {execute_sql(state, x.result)} :
                /\ state' = st
                /\ conns' = conns + x.leaked
                /\ pc' = ExecuteEdges(check_sql_execution(st))
                /\ calls' = Append(calls, Call("sql_tool", "execute_query",
                                               state.sql_query, Tagged(x.result)))
    /\ UNCHANGED <<result, runs, toolVars, schema_cache, lastExec, probe>>

RetrieveDocuments ==
    /\ pc = "retrieve_documents"
    /\ \E titles \in {IF state.query_type = "HYBRID"
                      THEN extract_titles_from_sql_results(state) ELSE <<>>} :
           IF ~rag_tool
           THEN /\ state' = retrieve_documents(state, rag_tool, NoRagResults)
                /\ calls' = calls
           ELSE IF titles # <<>>
           THEN \E outs \in [1..Len(titles) -> TitleOutcomes(collection)] :
                  /\ state' = retrieve_documents(state, rag_tool,
                                retrieve_documents_by_titles(titles, collection, outs))
                  /\ calls' = calls \o ByTitlesCalls(titles, collection, outs)
           ELSE \E emb \in EmbOutcomes, store \in StoreOutcomes(collection, 3) :
                \E rag_results \in {search(emb, store)} :
                  /\ state' = retrieve_documents(state, rag_tool, rag_results)
                  /\ calls' = Append(calls, Call("rag_tool", "search", state.user_query,
                                                 Tagged(rag_results)))
    /\ pc' = "format_response"
    /\ UNCHANGED <<result, runs, toolVars, schema_cache, conns, lastExec, probe>>

FormatResponse ==
    /\ pc = "format_response"
    /\ \E llm \in ConversationOutcomes :
         /\ state' = format_response(state, llm)
         /\ calls' = Append(calls, Call("conversation_llm", "invoke",
                                        context_parts(state), llm))
    /\ pc' = "END"
    /\ UNCHANGED <<result, runs, toolVars, schema_cache, conns, lastExec, probe>>

HandleError ==
    /\ pc = "handle_error"
    /\ state' = handle_error(state)
    /\ pc' = "END"
    /\ UNCHANGED <<result, runs, toolVars, schema_cache, conns, calls, lastExec, probe>>

\* query returns the dict built from the final state
Return ==
    /\ pc = "END"
    /\ result' = final_result(state)
    /\ state' = NoState
    /\ calls' = <<>>
    /\ pc' = "idle"
    /\ UNCHANGED <<runs, toolVars, schema_cache, conns, lastExec, probe>>

\* an exception no node caught leaves graph.invoke and query: the caller gets
\* no dict
Raised ==
    /\ pc = "raised"
    /\ result' = NoResult
    /\ state' = NoState
    /\ calls' = <<>>
    /\ pc' = "idle"
    /\ UNCHANGED <<runs, toolVars, schema_cache, conns, lastExec, probe>>

Next ==
    \/ Query
    \/ ClassifyQuery
    \/ ClassifyQueryEmbeddings
    \/ GenerateSql
    \/ ExecuteSql
    \/ RetrieveDocuments
    \/ FormatResponse
    \/ HandleError
    \/ Return
    \/ Raised

Spec == Init /\ [][Next]_vars

\* a run once started is carried to its end: graph.invoke executes the node
\* it is at, and an exception on its way out is not held back
RunStep ==
    \/ ClassifyQuery
    \/ ClassifyQueryEmbeddings
    \/ GenerateSql
    \/ ExecuteSql
    \/ RetrieveDocuments
    \/ FormatResponse
    \/ HandleError
    \/ Return
    \/ Raised

SpecLive == Init /\ [][Next]_vars /\ WF_vars(RunStep)

(***************************************************************************)
(* Properties of a run of the pipeline.                                    *)
(***************************************************************************)
\* the last call of the run was of the response synthesizer
SynthesizerCalledLast ==
    calls # <<>> /\ calls[Len(calls)].sys = "conversation_llm"

\* the response synthesizer was called in this run
SynthesizerCalled ==
    \E i \in 1..Len(calls) : calls[i].sys = "conversation_llm"

\* C1: every run ends either with a synthesized answer and no error, or with
\* the apology for the recorded error and the error set; never with an error
\* next to a synthesized answer, never with an empty answer.
C1_OneOutcome ==
    pc = "END" =>
        \/ /\ state.error = <<>>
           /\ state.formatted_response # <<>>
        \/ /\ state.error # <<>>
           /\ state.formatted_response = Apology(state.error)

\* a RAG run whose search of the document store failed
RagSearchFailed ==
    /\ state.query_type = "RAG"
    /\ state.rag_results.present
    /\ ~state.rag_results.success

\* C2: when the search of a RAG run fails, the run goes from retrieval to the
\* error handler: the synthesizer is not called, and the run ends with the
\* error set and the apology as its answer.
C2_RagFailureIsFatal ==
    RagSearchFailed =>
        /\ pc \in {"handle_error", "END"}
        /\ ~SynthesizerCalled
        /\ state.error # <<>>
        /\ pc = "END" => state.formatted_response = Apology(state.error)

\* a HYBRID run whose SQL succeeded and whose retrieval failed
HybridRetrievalFailed ==
    /\ state.query_type = "HYBRID"
    /\ state.sql_results.present
    /\ state.sql_results.success
    /\ state.rag_results.present
    /\ ~state.rag_results.success

C4_SynthesisFailureIsFatal ==
    (/\ pc = "END"
     /\ SynthesizerCalledLast
     /\ calls[Len(calls)].ret.kind = "raise") =>
        /\ state.error = <<"Error formatting response: ">> \o calls[Len(calls)].ret.msg
        /\ state.formatted_response = Apology(state.error)

\* C5: once the error of a run is set, no further call of the generation
\* backend, the SQL executor or the document store is made in that run.
C5_NoCallAfterError ==
    [][state.error # <<>> => Len(calls') <= Len(calls)]_vars

\* C6: the error of a run is written at most once: once set, no later node
\* replaces it.
C6_ErrorWrittenOnce ==
    [][(state.error # <<>> /\ pc # "END") => state'.error = state.error]_vars

\* C10: when execute_query fails, on validation or on execution, the error of
\* the run is the executor's error text, the run goes from execute_sql to the
\* error handler with neither retrieval nor synthesis called, and it ends with
\* the apology carrying that text.
C10_SqlFailureIsFatal ==
    (state.sql_results.present /\ ~state.sql_results.success) =>
        /\ pc \in {"handle_error", "END"}
        /\ state.error = state.sql_results.error
        /\ state.error # <<>>
        /\ calls # <<>>
        /\ calls[Len(calls)].sys = "sql_tool"
        /\ calls[Len(calls)].op = "execute_query"
        /\ calls[Len(calls)].ret.msg = state.error
        /\ \A i \in 1..Len(calls) :
              calls[i].sys \notin {"rag_tool", "conversation_llm"}
        /\ state.rag_results = NoRagResults
        /\ pc = "END" => state.formatted_response = Apology(state.sql_results.error)

\* a run ended by the database failing on the statement
C10_Witness ==
    /\ pc = "END"
    /\ state.sql_results.present
    /\ ~state.sql_results.success
    /\ state.sql_results.error = <<"Database error: ", "server closed the connection">>
    /\ state.error = state.sql_results.error
    /\ state.formatted_response = Apology(state.sql_results.error)

\* the run is past its classification
Classified == pc \notin {"idle", "classify_query"}

\* the classification called a backend
ClassifierCalled ==
    \E i \in 1..Len(calls) : calls[i].sys \in {"classifier_llm", "embeddings"}

\* C11: without a RAG tool the classification gives SQL, with the classifier
\* LLM as with the vote of the embeddings, and calls neither the generation
\* backend nor the embedding backend.
C11_NoRagToolMeansSql ==
    (~rag_tool /\ Classified) =>
        /\ state.query_type = "SQL"
        /\ ~ClassifierCalled
        /\ pc = "generate_sql" => calls = <<>>

\* a run of an agent without RAG tool, classified by the vote of the embeddings
C11_Witness ==
    /\ ~rag_tool
    /\ use_embeddings_classifier
    /\ pc = "generate_sql"
    /\ state.query_type = "SQL"
    /\ calls = <<>>

\* the classification has just ended: nothing else has been called yet
JustClassified ==
    /\ Classified
    /\ \A i \in 1..Len(calls) : calls[i].sys \in {"classifier_llm", "embeddings"}

\* the text names none of the three intents
Unparseable(text) ==
    LET response == upper(strip(text)) IN
    /\ ~contains(response, kHYBRID)
    /\ ~contains(response, kRAG)
    /\ ~contains(response, kSQL)

\* C12: whatever the classification backend answers (a text, an empty or an
\* unparseable text, a failure), with either strategy, the classification ends
\* with the intent being one of SQL, RAG and HYBRID and with no error; a
\* failure, like a text naming no intent, gives SQL.
C12_ClassificationNeverFails ==
    Classified =>
        /\ state.query_type \in {"SQL", "RAG", "HYBRID"}
        /\ JustClassified =>
              /\ state.error = <<>>
              /\ pc \in {"generate_sql", "retrieve_documents"}
        /\ (calls # <<>> /\ calls[1].sys \in {"classifier_llm", "embeddings"}) =>
              /\ calls[1].ret.kind = "raise" => state.query_type = "SQL"
              /\ (/\ calls[1].sys = "classifier_llm"
                  /\ calls[1].ret.kind = "text"
                  /\ Unparseable(calls[1].ret.text)) => state.query_type = "SQL"

\* the classifier LLM failed and the run goes on as an SQL run
C12_Witness ==
    /\ pc = "generate_sql"
    /\ calls = <<Call("classifier_llm", "invoke", <<>>, Raise(<<"connection refused">>))>>
    /\ state.query_type = "SQL"
    /\ state.error = <<>>

\* generate_sql was the last node to call anything
JustGenerated ==
    calls # <<>> /\ calls[Len(calls)].sys = "sql_llm"

\* the SQL executor was called in this run
ExecutorCalled ==
    \E i \in 1..Len(calls) : calls[i].op = "execute_query"

\* C14: after generate_sql, a cleaned statement that is not empty, with no
\* error, leads to execute_sql; an empty cleaned statement records the error
\* "SQL model returned empty response", a failure of the backend records an
\* error carrying the backend's text, and both lead to the error handler with
\* the SQL executor never called.
C14_GenerationEdges ==
    JustGenerated =>
        /\ pc \in {"execute_sql", "handle_error", "END"}
        /\ (state.sql_query # <<>> /\ state.error = <<>>) <=> pc = "execute_sql"
        /\ calls[Len(calls)].ret.kind = "text" =>
              /\ state.sql_query = clean_sql_response(calls[Len(calls)].ret.text)
              /\ state.sql_query = <<>> =>
                    state.error = <<"SQL model returned empty response">>
              /\ state.sql_query # <<>> => state.error = <<>>
        /\ calls[Len(calls)].ret.kind = "raise" =>
              state.error = <<"Error generating SQL: ">> \o calls[Len(calls)].ret.msg
        /\ pc # "execute_sql" =>
              /\ state.error # <<>>
              /\ ~ExecutorCalled
              /\ ~state.sql_results.present
        /\ pc = "END" => state.formatted_response = Apology(state.error)

\* a run ended by the SQL model answering nothing but a semicolon
C14_Witness ==
    /\ pc = "END"
    /\ JustGenerated
    /\ calls[Len(calls)].ret = Text(<<" ", ";">>)
    /\ state.sql_query = <<>>
    /\ state.error = <<"SQL model returned empty response">>
    /\ state.formatted_response = Apology(<<"SQL model returned empty response">>)

\* execute_sql was the last node to call anything
JustExecuted ==
    calls # <<>> /\ calls[Len(calls)].op = "execute_query"

\* C15: after execute_sql, a failed execution leads to the error handler, a
\* successful one to retrieve_documents when the intent is HYBRID and to
\* format_response when it is SQL; there is no other successor.
C15_ExecutionEdges ==
    JustExecuted =>
        /\ state.query_type \in {"SQL", "HYBRID"}
        /\ state.sql_results.present
        /\ ~state.sql_results.success => pc \in {"handle_error", "END"}
        /\ (state.sql_results.success /\ state.query_type = "HYBRID") =>
              pc = "retrieve_documents"
        /\ (state.sql_results.success /\ state.query_type = "SQL") =>
              pc = "format_response"

\* a HYBRID run about to retrieve documents for the rows of its SQL result
C15_Witness ==
    /\ JustExecuted
    /\ state.query_type = "HYBRID"
    /\ state.sql_results.success
    /\ state.sql_results.rows # <<>>
    /\ pc = "retrieve_documents"

\* the nodes of the graph
Nodes ==
    {"classify_query", "generate_sql", "execute_sql", "retrieve_documents",
     "format_response", "handle_error"}

\* the place of a node in the order the edges of the graph go by
Rank(node) ==
    CASE node = "classify_query" -> 1
      [] node = "generate_sql" -> 2
      [] node = "execute_sql" -> 3
      [] node = "retrieve_documents" -> 4
      [] node \in {"format_response", "handle_error"} -> 5
      [] node = "END" -> 6
      [] OTHER -> 0

\* a step taken at a node leads further down the graph
StepsDown ==
    pc \in Nodes => (pc' \in (Nodes \cup {"END"}) /\ Rank(pc') > Rank(pc))

\* C16: every run terminates: whatever the collaborators answer, a run that
\* has started reaches END, each step of it leading from a node to a node
\* further down the graph or to END, so that no node runs twice; the error
\* handler always goes to END.
C16_EveryRunTerminates ==
    /\ [][StepsDown]_vars
    /\ (pc = "classify_query") ~> (pc = "END")

\* C17: no failure of a collaborator leaves query as an exception: every run
\* ends with query returning its dict.
C17_NoExceptionEscapes ==
    pc # "raised"

IsRagCall(c) == c.sys = "rag_tool"

\* the calls of the document store made so far in the run, in order
RagCalls == SelectSeq(calls, IsRagCall)

\* retrieve_documents has run in a HYBRID run
HybridRetrieved ==
    state.query_type = "HYBRID" /\ state.rag_results.present

\* cs is, title after title, an exact-key lookup of the title followed by a
\* search of the title text exactly when the lookup did not find it
RECURSIVE FollowsChain(_, _)
FollowsChain(titles, cs) ==
    IF titles = <<>> THEN cs = <<>>
    ELSE /\ cs # <<>>
         /\ cs[1].op = "get_document_by_title"
         /\ cs[1].arg = Head(titles)
         /\ IF cs[1].ret.kind = "ok"
            THEN FollowsChain(Tail(titles), Tail(cs))
            ELSE /\ Len(cs) >= 2
                 /\ cs[2].op = "search"
                 /\ cs[2].arg = Head(titles)
                 /\ FollowsChain(Tail(titles), Tail(Tail(cs)))

\* C21: in the retrieval of a HYBRID run, when titles were extracted each
\* title gets an exact-key lookup first and a search of the title text only if
\* the lookup did not find it, and the text of the query is never searched;
\* when no title was extracted there is one search, of the text of the query,
\* and no exact-key lookup.
C21_FallbackChain ==
    HybridRetrieved =>
        \E titles \in {extract_titles_from_sql_results(state)} :
            IF titles = <<>>
            THEN /\ Len(RagCalls) = 1
                 /\ RagCalls[1].op = "search"
                 /\ RagCalls[1].arg = state.user_query
            ELSE /\ FollowsChain(titles, RagCalls)
                 /\ \A i \in 1..Len(RagCalls) : RagCalls[i].arg # state.user_query

\* two titles: the first is not in the store and is searched for, the second
\* is found by its key
C21_Witness ==
    /\ HybridRetrieved
    /\ extract_titles_from_sql_results(state) = <<TerrorNocturno, AventurasGalacticas>>
    /\ Len(RagCalls) = 3
    /\ RagCalls[1].op = "get_document_by_title" /\ RagCalls[1].ret.kind = "fail"
    /\ RagCalls[2].op = "search" /\ RagCalls[2].arg = TerrorNocturno
    /\ RagCalls[3].op = "get_document_by_title" /\ RagCalls[3].ret.kind = "ok"

\* the entries of res from the k-th on are those the calls cs gave, in order:
\* one entry, with similarity 100 and the text stored under the key, for every
\* lookup that found its document, and at most one for every search that
\* succeeded
RECURSIVE Attributed(_, _, _)
Attributed(cs, res, k) ==
    IF cs = <<>> THEN k = Len(res.documents) + 1
    ELSE IF Head(cs).op = "get_document_by_title" /\ Head(cs).ret.kind = "ok"
    THEN /\ k <= Len(res.documents)
         /\ res.similarities[k] = 100
         /\ res.documents[k] = DocText(replace(Head(cs).arg, <<" ">>, <<"_">>))
         /\ Attributed(Tail(cs), res, k + 1)
    ELSE IF Head(cs).op = "search" /\ Head(cs).ret.kind = "ok"
    THEN \/ Attributed(Tail(cs), res, k)
         \/ k <= Len(res.documents) /\ Attributed(Tail(cs), res, k + 1)
    ELSE Attributed(Tail(cs), res, k)

\* C22: in a HYBRID run that retrieved by titles, every document found by an
\* exact-key lookup is in the retrieval result with similarity 1.0 (100 percent),
\* so that every entry with a lower similarity came from a search.
C22_ExactMatchIsOne ==
    (HybridRetrieved /\ extract_titles_from_sql_results(state) # <<>>) =>
        /\ Len(state.rag_results.similarities) = Len(state.rag_results.documents)
        /\ Attributed(RagCalls, state.rag_results, 1)

\* a result holding a document found by a search, then one found by its key
C22_Witness ==
    /\ HybridRetrieved
    /\ state.rag_results.success
    /\ state.rag_results.similarities = <<50, 100>>
    /\ state.rag_results.documents =
          <<DocText(Alpha), DocText(<<"Aventuras", "_", "Galacticas">>)>>
    /\ Len(RagCalls) = 3

\* C23: every successful retrieval result in the state of a run, the one
\* gathered title by title in a HYBRID run included, lists its documents by
\* descending similarity.
C23_DescendingSimilarity ==
    (state.rag_results.present /\ state.rag_results.success) =>
        \A i, j \in 1..Len(state.rag_results.similarities) :
            i < j => state.rag_results.similarities[i] >= state.rag_results.similarities[j]

\* the calls the step adds to those of the run
NewCalls ==
    IF Len(calls') >= Len(calls) THEN SubSeq(calls', Len(calls) + 1, Len(calls')) ELSE <<>>

\* every call of the document store comes after a call of execute_query that
\* returned a successful result
StoreAfterSql ==
    \A i \in 1..Len(calls) :
        calls[i].sys = "rag_tool" =>
            \E j \in 1..(i - 1) : /\ calls[j].op = "execute_query"
                                  /\ calls[j].ret.kind = "ok"

\* no step of a run calls both the SQL tool and the document store
OneSubsystemPerStep ==
    ~ /\ \E i \in 1..Len(NewCalls) : NewCalls[i].sys = "sql_tool"
      /\ \E i \in 1..Len(NewCalls) : NewCalls[i].sys = "rag_tool"

\* C24: in a HYBRID run the document store is called, for a lookup or for a
\* search, only after execute_query has returned a successful result, and the
\* SQL tool and the document store are never called in the same step of a run.
C24_SqlThenRetrieval ==
    /\ [](state.query_type = "HYBRID" => StoreAfterSql)
    /\ [][OneSubsystemPerStep]_vars

\* a HYBRID run that has called the document store after its SQL succeeded
C24_Witness ==
    /\ pc = "format_response"
    /\ state.query_type = "HYBRID"
    /\ state.sql_results.success
    /\ calls[Len(calls)].sys = "rag_tool"
    /\ calls[Len(calls) - 1].op = "execute_query"
    /\ calls[Len(calls) - 1].ret.kind = "ok"

\* C25: the intent decides which subsystems a run touches: a RAG run calls
\* neither the SQL generation (schema, SQL model) nor the SQL executor, and an
\* SQL run never calls the document store.
C25_IntentDecidesSubsystems ==
    /\ state.query_type = "RAG" =>
          \A i \in 1..Len(calls) : calls[i].sys \notin {"sql_llm", "sql_tool"}
    /\ state.query_type = "SQL" =>
          \A i \in 1..Len(calls) : calls[i].sys # "rag_tool"
    /\ state.query_type = "RAG" =>
          /\ pc \notin {"generate_sql", "execute_sql"}
          /\ state.sql_query = <<>>
          /\ ~state.sql_results.present
    /\ state.query_type = "SQL" =>
          /\ pc # "retrieve_documents"
          /\ ~state.rag_results.present

\* a RAG run answered from the documents found, with no SQL step
C25_Witness ==
    /\ pc = "END"
    /\ state.query_type = "RAG"
    /\ state.rag_results.success
    /\ state.rag_results.count = 2
    /\ state.error = <<>>
    /\ state.formatted_response = <<"There are 42 users.">>
    /\ Len(calls) = 3
    /\ calls[2].sys = "rag_tool"

\* the calls of the run made of a backend
CallsOf(backend) ==
    {i \in 1..Len(calls) :
        CASE backend = "classification" -> calls[i].sys \in {"classifier_llm", "embeddings"}
          [] backend = "sql_generation" -> calls[i].sys = "sql_llm"
          [] backend = "sql_executor" -> calls[i].op = "execute_query"
          [] backend = "synthesis" -> calls[i].sys = "conversation_llm"}

\* C26: nothing is retried: in one run the classification backend, the SQL
\* generation backend, the SQL executor and the synthesis backend are each
\* called at most once, whether the call succeeded or failed.
C26_NoRetries ==
    \A backend \in {"classification", "sql_generation", "sql_executor", "synthesis"} :
        Cardinality(CallsOf(backend)) <= 1

\* a run that called the four backends once each, the last call failing
C26_Witness ==
    /\ pc = "END"
    /\ Len(calls) = 5
    /\ \A backend \in {"classification", "sql_generation", "sql_executor", "synthesis"} :
          Cardinality(CallsOf(backend)) = 1
    /\ calls[5].sys = "conversation_llm"
    /\ calls[5].ret.kind = "raise"

\* a step of a node after classify_query leaves the intent as it is, and the
\* dict query returns carries the intent of the final state
IntentKept ==
    /\ pc \in (Nodes \ {"classify_query"}) => state'.query_type = state.query_type
    /\ pc = "END" => result'.query_type = state.query_type

\* C27: the intent is decided once: after classify_query has written
\* query_type no later node changes it, and the intent in the result of query
\* is the intent classified.
C27_IntentDecidedOnce ==
    [][IntentKept]_vars

\* a HYBRID run returned as HYBRID after its retrieval failed
C27_Witness ==
    /\ pc = "idle"
    /\ result.present
    /\ result.query_type = "HYBRID"
    /\ result.rag_results.present
    /\ ~result.rag_results.success
    /\ result.error = <<>>

\* the state holds something to answer from: a successful execution result or
\* a retrieved document
HasMaterial(st) ==
    \/ st.sql_results.present /\ st.sql_results.success
    \/ st.rag_results.present /\ st.rag_results.documents # <<>>

\* C34: whenever format_response is about to run or has just run, the state
\* holds a successful SQL execution result or at least one retrieved document.
C34_SynthesisHasMaterial ==
    (pc = "format_response" \/ (pc = "END" /\ SynthesizerCalledLast)) =>
        HasMaterial(state)

\* C35: whenever handle_error is about to run, and after it has run, the
\* recorded error is not empty, and the apology is built from it.
C35_ErrorNeverEmpty ==
    /\ pc = "handle_error" => state.error # <<>>
    /\ (pc = "END" /\ ~SynthesizerCalled) =>
          /\ state.error # <<>>
          /\ state.formatted_response = strip(Apology(state.error))

\* the SQL model answered with nothing that could be kept: the run is at the
\* error handler with the error generate_sql recorded
C35_Witness ==
    /\ pc = "handle_error"
    /\ JustGenerated
    /\ calls[Len(calls)].ret.kind = "text"
    /\ state.sql_query = <<>>
    /\ state.error = <<"SQL model returned empty response">>

IsLookup(c) == c.op = "get_document_by_title"

\* the exact-key lookups of the run, in order
Lookups == SelectSeq(RagCalls, IsLookup)

\* the call gave a document: a lookup that found its key, or a search that
\* succeeded on a store that is not empty
Yielded(c) == c.ret.kind = "ok" /\ (IsLookup(c) \/ collection # {})

\* C36: in the retrieval by titles every title is looked up, in the order of
\* the titles, whatever happened to the titles before it, and the aggregated
\* result is a success exactly when some title yielded a document.
C36_TitlesIsolated ==
    (HybridRetrieved /\ extract_titles_from_sql_results(state) # <<>>) =>
        /\ [i \in 1..Len(Lookups) |-> Lookups[i].arg]
              = extract_titles_from_sql_results(state)
        /\ state.rag_results.success <=> \E i \in 1..Len(RagCalls) : Yielded(RagCalls[i])
        /\ state.rag_results.success <=> state.rag_results.documents # <<>>

\* the lookup and the search of the first title both failed, the second title
\* was still looked up and found, and the result is a success with its document
C36_Witness ==
    /\ HybridRetrieved
    /\ extract_titles_from_sql_results(state) = <<TerrorNocturno, AventurasGalacticas>>
    /\ Len(RagCalls) = 3
    /\ RagCalls[1].op = "get_document_by_title" /\ RagCalls[1].ret.kind = "fail"
    /\ RagCalls[2].op = "search" /\ RagCalls[2].ret.kind = "fail"
    /\ RagCalls[3].op = "get_document_by_title" /\ RagCalls[3].ret.kind = "ok"
    /\ state.rag_results.success
    /\ state.rag_results.count = 1

\* C37: in a HYBRID run with n extracted titles the document store gets, for
\* each title in turn, one exact-key lookup and then at most one search, made
\* only when the lookup did not succeed: at most 2n calls; and the aggregated
\* result holds at most n documents, in the order of the titles they were
\* retrieved for.
C37_BoundedRetrieval ==
    (HybridRetrieved /\ extract_titles_from_sql_results(state) # <<>>) =>
        \E titles \in {extract_titles_from_sql_results(state)} :
            /\ Len(RagCalls) <= 2 * Len(titles)
            /\ Len(Lookups) = Len(titles)
            /\ FollowsChain(titles, RagCalls)
            /\ Len(state.rag_results.documents) <= Len(titles)
            /\ state.rag_results.count = Len(state.rag_results.documents)
            /\ Attributed(RagCalls, state.rag_results, 1)

\* two titles, neither found by its key, each searched for once: four calls,
\* two documents
C37_Witness ==
    /\ HybridRetrieved
    /\ Len(extract_titles_from_sql_results(state)) = 2
    /\ Len(RagCalls) = 4
    /\ RagCalls[2].op = "search" /\ RagCalls[2].ret.kind = "ok"
    /\ RagCalls[4].op = "search" /\ RagCalls[4].ret.kind = "ok"
    /\ Len(state.rag_results.documents) = 2

\* a step of handle_error leaves every field of the state but the answer as
\* it was, and the return that follows copies those fields into the result
ErrorFrame ==
    /\ pc = "handle_error" =>
          /\ pc' = "END"
          /\ state' = [state EXCEPT !.formatted_response = state'.formatted_response]
    /\ (pc = "END" /\ ~SynthesizerCalled) =>
          /\ result'.present
          /\ result'.error = state.error
          /\ result'.query_type = state.query_type
          /\ result'.sql_query = state.sql_query
          /\ result'.results = state.sql_results
          /\ result'.rag_results = state.rag_results

\* C38: handle_error changes only the answer text: the error, the intent, the
\* generated SQL, the execution result and the retrieval result held when the
\* error handler was entered are returned unchanged in the result of query.
C38_HandleErrorFrame ==
    [][ErrorFrame]_vars

\* a run returned through the error handler with the statement generated and
\* the failed execution result still in its result
C38_Witness ==
    /\ pc = "idle"
    /\ result.present
    /\ result.error # <<>>
    /\ result.response = strip(Apology(result.error))
    /\ result.sql_query # <<>>
    /\ result.results.present
    /\ ~result.results.success
    /\ result.results.error = result.error

\* what the call of get_database_schema gave stands for a failed introspection:
\* an exception, or the text of a failure
SchemaFailure(ret) ==
    \/ ret.kind = "raise"
    \/ ret.text # <<>> /\ ret.text[1] = "Error retrieving database schema: "

\* the i-th call of the run is a failed introspection that was passed over:
\* the text of the failure was returned, nothing was cached, the SQL model was
\* called next with that text in place of the schema, and the error of the
\* state is the one the generation itself gave, if any
PassedOver(i) ==
    /\ calls[i].ret.kind = "text"
    /\ schema_cache.text = <<>>
    /\ i < Len(calls)
    /\ calls[i + 1].sys = "sql_llm"
    /\ calls[i + 1].arg = calls[i].ret.text
    /\ (i + 1 = Len(calls) /\ pc \in {"execute_sql", "handle_error"}) =>
          state = generate_sql([state EXCEPT !.error = <<>>, !.sql_query = <<>>],
                               calls[i + 1].ret)

\* C39: a failure of the introspection of the schema is not an error of the
\* pipeline: get_database_schema returns the text of the failure and caches
\* nothing, generate_sql calls the SQL model with that text and records no
\* error for it.
C39_SchemaFailurePassedOver ==
    \A i \in 1..Len(calls) :
        (calls[i].op = "get_database_schema" /\ SchemaFailure(calls[i].ret)) => PassedOver(i)

\* C40: every connection opened by execute_query or get_database_schema is
\* closed before the call returns, on every path: between the steps of the
\* pipeline no connection is open.
C40_NoConnectionLeftOpen ==
    conns = 0

(***************************************************************************)
(* SQLTool.execute_query called directly, on any statement.                *)
(***************************************************************************)
kMERGE == <<"M","E","R","G","E">>

Lexemes ==
    {kSELECT, <<"s","e","l","e","c","t">>, <<" ">>, <<";">>, <<"x">>, kMERGE,
     kDROP, <<"d","e","l","e","t","e">>, <<"I","n","s","e","r","t">>,
     <<"u","p","d","a","t","e","d">>, <<"a","l","t","e","r">>, kCREATE,
     <<"t","r","u","n","c","a","t","e">>}

Statements ==
    {Flatten(w) : w \in UNION {[1..n -> Lexemes] : n \in 0..MaxLexemes}}

\* an SQLTool of its own, about to be called on one statement
InitExec ==
    /\ pc = "idle"
    /\ state = NoState
    /\ result = NoResult
    /\ runs = 0
    /\ rag_tool = FALSE
    /\ use_embeddings_classifier = FALSE
    /\ example_embeddings = FALSE
    /\ collection = {}
    /\ schema_cache = NoSchemaCache
    /\ conns = 0
    /\ calls = <<>>
    /\ \E query \in Statements : lastExec = NoExec(query)
    /\ probe = NoProbe

ExecuteQueryCall ==
    /\ ~lastExec.present
    /\ \E db \in DbOutcomes :
         \E x \in {execute_query(lastExec.query, db)} :
            /\ conns' = conns + x.leaked
            /\ lastExec' = [present |-> TRUE, query |-> lastExec.query,
                            result |-> x.result, trace |-> x.trace]
    /\ UNCHANGED <<pc, state, result, runs, toolVars, schema_cache, calls, probe>>

NextExec == ExecuteQueryCall

SpecExec == InitExec /\ [][NextExec]_vars

(***************************************************************************)
(* Properties of execute_query.                                            *)
(***************************************************************************)
\* the call was refused by the validation: a failure, and nothing reached the
\* database
Rejected ==
    /\ ~lastExec.result.success
    /\ lastExec.result.error # <<>>
    /\ lastExec.result.query = lastExec.query
    /\ lastExec.trace = <<>>
    /\ conns = 0

\* C7: a statement whose text holds DROP, DELETE, INSERT, UPDATE, ALTER,
\* CREATE or TRUNCATE, in any letter case and anywhere, is refused by
\* execute_query: no connection is opened and nothing is sent to the database.
C7_DenylistRejected ==
    (/\ lastExec.present
     /\ \E k \in 1..Len(dangerous_keywords) :
            contains(upper(lastExec.query), dangerous_keywords[k])) => Rejected

\* a SELECT refused for a keyword in lower case inside an identifier
C7_Witness ==
    /\ lastExec.present
    /\ lastExec.query = kSELECT \o <<" ">> \o <<"u","p","d","a","t","e","d">>
    /\ lastExec.result.error =
          <<"Dangerous keyword '">> \o kUPDATE
          \o <<"' detected. Only SELECT queries are allowed.">>
    /\ Rejected

\* the text is the word SELECT, alone or followed by a blank
SelectStatement(text) ==
    LET t == strip(text) IN
    /\ Len(t) >= 6
    /\ upper(SubSeq(t, 1, 6)) = kSELECT
    /\ Len(t) > 6 => t[7] \in Whitespace

\* the text is two SELECT statements with a semicolon between them, the second
\* one with or without a semicolon of its own
TwoSelects(text) ==
    LET parts == split_on(text, ";") IN
    /\ Len(parts) \in {2, 3}
    /\ SelectStatement(parts[1])
    /\ SelectStatement(parts[2])
    /\ Len(parts) = 3 => strip(parts[3]) = <<>>

\* C8: a text of two SELECT statements separated by a semicolon is refused by
\* execute_query, and the database is never reached.
C8_TwoSelectsRejected ==
    (lastExec.present /\ TwoSelects(lastExec.query)) => Rejected

\* two SELECTs refused for being two
C8_Witness ==
    /\ lastExec.present
    /\ lastExec.query = kSELECT \o <<";">> \o kSELECT
    /\ TwoSelects(lastExec.query)
    /\ lastExec.result.error = <<"Multiple SQL statements are not allowed">>
    /\ Rejected

\* the first token of the text is the word SELECT, in any letter case
FirstTokenIsSelect(text) ==
    LET t == lstrip(text) IN
    /\ Len(t) >= 6
    /\ upper(SubSeq(t, 1, 6)) = kSELECT
    /\ Len(t) > 6 => t[7] \in Whitespace \cup Punctuation

\* C9: execute_query reaches the database only for a statement whose first
\* token is SELECT; an empty statement, or one that starts with anything else,
\* is refused without a connection being opened.
C9_OnlySelectReachesStore ==
    (lastExec.present /\ ~FirstTokenIsSelect(lastExec.query)) => Rejected

\* a MERGE refused for not being a SELECT
C9_Witness ==
    /\ lastExec.present
    /\ lastExec.query = kMERGE \o <<" ", "x">>
    /\ lastExec.result.error = <<"Only SELECT queries are allowed">>
    /\ Rejected

(***************************************************************************)
(* Methods of SQLAgent and SQLTool called on their own.                    *)
(***************************************************************************)
\* the values query_type is given to _route_query with: the three intents,
\* the value of a state not yet classified, and a word that is no intent
QueryTypes == {"SQL", "RAG", "HYBRID", "", "sql"}

RouteInputs ==
    {[initial_state(q) EXCEPT !.query_type = t] : q \in UserQueries, t \in QueryTypes}

\* calls of get_database_schema made one after the other on one SQLTool
MaxCalls == 3

\* the rows of a successful result
MaxRows == 2

ColumnLists ==
    {<<"titulo", "views">>, <<"views", "titulo">>, <<"views">>, <<"Titulo", "views">>}

ColumnValues ==
    {StrValue(Alpha), StrValue(<<>>), NoneValue, IntValue(<<"0">>), IntValue(<<"5">>)}

\* the values a column holds: any of them under titulo, a number or a text
\* under the columns the method does not read
ValuesOf(column) ==
    IF column = "titulo" THEN ColumnValues ELSE {IntValue(<<"5">>), StrValue(Alpha)}

RowsOf(c) ==
    {r \in [1..Len(c) -> ColumnValues] : \A k \in 1..Len(c) : r[k] \in ValuesOf(c[k])}

\* what cursor.description and fetchall may give
TableInputs ==
    UNION {{[columns |-> c, rows |-> r] :
                r \in UNION {[1..n -> RowsOf(c)] : n \in 0..MaxRows}} :
           c \in ColumnLists}

\* the pieces a response of the SQL model is made of
MaxParts == 3

RawLexemes ==
    {<<"BT","BT","BT","s","q","l">>, <<"BT","BT","BT">>, <<"\n">>, <<" ">>, <<";">>,
     kSELECT, <<"s","e","l","e","c","t">>, <<"x">>, <<".", " ">>, <<"eszett">>}

RawResponses ==
    {Flatten(w) : w \in UNION {[1..n -> RawLexemes] : n \in 0..MaxParts}}

\* the pieces a response of the classifier is made of
ClassifierLexemes ==
    {kHYBRID, kRAG, kSQL, <<"r","a","g">>, <<" ">>, <<"n","o">>}

ClassifierResponses ==
    {Flatten(w) : w \in UNION {[1..n -> ClassifierLexemes] : n \in 0..MaxParts}}

ProbeInputs ==
    {Probe("route_query", st) : st \in RouteInputs}
    \cup {Probe("clean_sql_response", raw) : raw \in RawResponses}
    \cup {Probe("get_database_schema", t) : t \in SchemaTexts}
    \cup {Probe("extract_titles_from_sql_results", t) : t \in TableInputs}
    \cup {Probe("search", [ids |-> ids, top_k |-> k]) : ids \in Collections, k \in {1, 3}}
    \cup {Probe("classify_query", r) : r \in ClassifierResponses}
    \cup {Probe("classify_query_embeddings", sims) : sims \in ExampleSims}

InitFn ==
    /\ pc = "idle"
    /\ state = NoState
    /\ result = NoResult
    /\ runs = 0
    /\ rag_tool = FALSE
    /\ use_embeddings_classifier = FALSE
    /\ example_embeddings = FALSE
    /\ collection = {}
    /\ schema_cache = NoSchemaCache
    /\ conns = 0
    /\ calls = <<>>
    /\ lastExec = NoExec(<<>>)
    /\ probe \in ProbeInputs

\* _route_query and the conditional edges of classify_query
RouteQueryCall ==
    /\ probe.op = "route_query"
    /\ probe.n = 0
    /\ probe' = [probe EXCEPT !.ret = ClassifyEdges(route_query(probe.arg)), !.n = 1]
    /\ UNCHANGED <<pc, state, result, runs, toolVars, schema_cache, conns, calls,
                   lastExec>>

\* get_database_schema called again and again on a database whose schema,
\* probe.arg, does not change, and which is there or not from call to call; a
\* call that raises returns nothing
GetDatabaseSchemaCall ==
    /\ probe.op = "get_database_schema"
    /\ probe.n < MaxCalls
    /\ \E db \in {o \in SchemaOutcomes : o.kind = "ok" => o.schema = probe.arg} :
         \E g \in {get_database_schema(schema_cache, db)} :
            /\ schema_cache' = g.cache
            /\ conns' = conns + g.leaked
            /\ probe' = IF g.raised THEN probe
                        ELSE [probe EXCEPT !.ret = g.text, !.n = probe.n + 1,
                                           !.first = IF probe.n = 0 THEN g.text
                                                     ELSE probe.first]
    /\ UNCHANGED <<pc, state, result, runs, toolVars, calls, lastExec>>

\* _extract_titles_from_sql_results on the state _execute_sql leaves when
\* execute_query has returned the rows of probe.arg
ExtractTitlesCall ==
    /\ probe.op = "extract_titles_from_sql_results"
    /\ probe.n = 0
    /\ \E st \in {execute_sql([initial_state(<<"What is the most viewed movie about?">>)
                                    EXCEPT !.query_type = "HYBRID", !.sql_query = SelectX],
                                SqlSuccess(SelectX, probe.arg.columns, probe.arg.rows))} :
          probe' = [probe EXCEPT !.ret = extract_titles_from_sql_results(st), !.n = 1]
    /\ UNCHANGED <<pc, state, result, runs, toolVars, schema_cache, conns, calls,
                   lastExec>>

\* _clean_sql_response on a response, then on what it returned
CleanSqlResponseCall ==
    /\ probe.op = "clean_sql_response"
    /\ probe.n < 2
    /\ \E cleaned \in {clean_sql_response(IF probe.n = 0 THEN probe.arg ELSE probe.ret)} :
          probe' = [probe EXCEPT !.ret = cleaned, !.n = probe.n + 1,
                                 !.first = IF probe.n = 0 THEN cleaned ELSE probe.first]
    /\ UNCHANGED <<pc, state, result, runs, toolVars, schema_cache, conns, calls,
                   lastExec>>

\* search(query, top_k) on a store holding probe.arg.ids; probe.first keeps
\* what embed_query and collection.query answered
SearchCall ==
    /\ probe.op = "search"
    /\ probe.n = 0
    /\ \E emb \in EmbOutcomes, store \in StoreOutcomes(probe.arg.ids, probe.arg.top_k) :
          probe' = [probe EXCEPT !.ret = search(emb, store),
                                 !.first = [emb |-> emb, store |-> store],
                                 !.n = 1]
    /\ UNCHANGED <<pc, state, result, runs, toolVars, schema_cache, conns, calls,
                   lastExec>>

\* _classify_query on an agent with its RAG tool, the classifier answering
\* probe.arg
ClassifyQueryCall ==
    /\ probe.op = "classify_query"
    /\ probe.n = 0
    /\ \E q \in UserQueries :
          probe' = [probe EXCEPT
                        !.ret = classify_query(initial_state(q), TRUE, Text(probe.arg)).query_type,
                        !.n = 1]
    /\ UNCHANGED <<pc, state, result, runs, toolVars, schema_cache, conns, calls,
                   lastExec>>

\* _classify_query_embeddings on an agent with its RAG tool and its examples,
\* probe.arg being the similarities of the query with the examples
ClassifyEmbeddingsCall ==
    /\ probe.op = "classify_query_embeddings"
    /\ probe.n = 0
    /\ \E q \in UserQueries :
          probe' = [probe EXCEPT
                        !.ret = classify_query_embeddings(initial_state(q), TRUE, TRUE,
                                    [kind |-> "ok", msg |-> <<>>], probe.arg).query_type,
                        !.n = 1]
    /\ UNCHANGED <<pc, state, result, runs, toolVars, schema_cache, conns, calls,
                   lastExec>>

NextFn ==
    \/ ClassifyQueryCall
    \/ ClassifyEmbeddingsCall
    \/ RouteQueryCall
    \/ CleanSqlResponseCall
    \/ GetDatabaseSchemaCall
    \/ ExtractTitlesCall
    \/ SearchCall

SpecFn == InitFn /\ [][NextFn]_vars

\* C13: the node that follows the classification depends on the intent alone:
\* generate_sql for SQL and for HYBRID, retrieve_documents for RAG, and
\* handle_error for any other value.
C13_RouteByIntent ==
    (probe.op = "route_query" /\ probe.n = 1) =>
        probe.ret = CASE probe.arg.query_type \in {"SQL", "HYBRID"} -> "generate_sql"
                      [] probe.arg.query_type = "RAG" -> "retrieve_documents"
                      [] OTHER -> "handle_error"

\* a state whose intent is none of the three, sent to the error handler
C13_Witness ==
    /\ probe.op = "route_query"
    /\ probe.n = 1
    /\ probe.arg.query_type = "sql"
    /\ probe.ret = "handle_error"

\* C18: once get_database_schema has returned for the first time, every later
\* call on the same SQLTool returns the very same text, whatever the database
\* does in between.
C18_SchemaTextNeverChanges ==
    (probe.op = "get_database_schema" /\ probe.n >= 1) => probe.ret = probe.first

\* C19: cleaning a response of the SQL model twice gives what cleaning it once
\* gives, whatever code fences, trailing semicolons or leading prose it has.
C19_CleanupIdempotent ==
    (probe.op = "clean_sql_response" /\ probe.n = 2) => probe.ret = probe.first

\* the value is neither None, nor the empty string, nor zero
NonEmpty(x) ==
    /\ x.t # "none"
    /\ x.v # <<>>
    /\ ~(x.t = "int" /\ x.v = <<"0">>)

\* the texts of the non-empty values of column k, row after row
ColumnTexts(rows, k) ==
    LET Kept(row) == NonEmpty(row[k])
        kept == SelectSeq(rows, Kept)
    IN  [i \in 1..Len(kept) |-> kept[i][k].v]

\* C20: on a successful SQL result the titles extracted are, in the order of
\* the rows, the values of the column titulo of the rows where it is not
\* empty; rows without that column, or with an empty value in it, give
\* nothing, and no other column is looked at.
C20_TitlesFromTituloColumn ==
    (probe.op = "extract_titles_from_sql_results" /\ probe.n = 1) =>
        LET at == {k \in 1..Len(probe.arg.columns) : probe.arg.columns[k] = "titulo"}
        IN  /\ at = {} => probe.ret = <<>>
            /\ \A k \in at : probe.ret = ColumnTexts(probe.arg.rows, k)

\* two rows with a title each, out of a result whose second column is titulo
C20_Witness ==
    /\ probe.op = "extract_titles_from_sql_results"
    /\ probe.n = 1
    /\ probe.arg = [columns |-> <<"views", "titulo">>,
                    rows |-> << <<IntValue(<<"5">>), IntValue(<<"5">>)>>,
                                <<StrValue(Alpha), StrValue(Alpha)>> >>]
    /\ probe.ret = << <<"5">>, Alpha >>

\* C30: search does not raise: when embed_query or collection.query fails it
\* returns a result tagged as failed, with no documents, and a search of an
\* empty store returns a result tagged as failed too.
C30_SearchFailsCleanly ==
    (probe.op = "search" /\ probe.n = 1) =>
        /\ probe.ret.present
        /\ (probe.first.emb.kind = "raise" \/ probe.first.store.kind = "raise") =>
              /\ ~probe.ret.success
              /\ probe.ret.documents = <<>>
        /\ probe.arg.ids = {} => ~probe.ret.success

\* C31: the classifier LLM's response, in capitals, is resolved by the
\* precedence HYBRID, RAG, SQL: of the tokens it contains the first in that
\* order gives the intent, and a response with none of them, the empty one
\* included, gives SQL.
C31_TokenPrecedence ==
    (probe.op = "classify_query" /\ probe.n = 1) =>
        /\ contains(upper(probe.arg), kHYBRID) => probe.ret = "HYBRID"
        /\ (contains(upper(probe.arg), kRAG) /\ ~contains(upper(probe.arg), kHYBRID)) =>
              probe.ret = "RAG"
        /\ (/\ contains(upper(probe.arg), kSQL)
            /\ ~contains(upper(probe.arg), kRAG)
            /\ ~contains(upper(probe.arg), kHYBRID)) => probe.ret = "SQL"
        /\ (/\ ~contains(upper(probe.arg), kSQL)
            /\ ~contains(upper(probe.arg), kRAG)
            /\ ~contains(upper(probe.arg), kHYBRID)) => probe.ret = "SQL"

\* a response naming SQL before rag, classified as RAG
C31_Witness ==
    /\ probe.op = "classify_query"
    /\ probe.n = 1
    /\ probe.arg = kSQL \o <<" ">> \o <<"r","a","g">>
    /\ probe.ret = "RAG"

\* the score of a category: the highest similarity with one of its examples
ScoreOf(sims, c) == SeqMax(sims[c])

\* the place of a category in the order the scores are compared in
PlaceOf(c) == CHOOSE i \in 1..3 : Categories[i] = c

\* C32: the vote of the embeddings scores each category by the highest
\* similarity of the query with its examples and returns a category whose
\* score is the highest; of several that tie, the first in the order SQL, RAG,
\* HYBRID.
C32_EmbeddingVote ==
    (probe.op = "classify_query_embeddings" /\ probe.n = 1) =>
        /\ probe.ret \in {"SQL", "RAG", "HYBRID"}
        /\ \A c \in {"SQL", "RAG", "HYBRID"} :
              /\ ScoreOf(probe.arg, c) <= ScoreOf(probe.arg, probe.ret)
              /\ PlaceOf(c) < PlaceOf(probe.ret) =>
                    ScoreOf(probe.arg, c) < ScoreOf(probe.arg, probe.ret)

\* RAG and HYBRID tie above SQL: RAG is returned
C32_Witness ==
    /\ probe.op = "classify_query_embeddings"
    /\ probe.n = 1
    /\ ScoreOf(probe.arg, "SQL") = 0
    /\ ScoreOf(probe.arg, "RAG") = 1
    /\ ScoreOf(probe.arg, "HYBRID") = 1
    /\ probe.ret = "RAG"

\* the text holds the keyword SELECT, in any case of letters, from place i on
SelectAt(text, i) ==
    /\ i + 5 <= Len(text)
    /\ upper(SubSeq(text, i, i + 5)) = kSELECT

\* C33: for a response holding the keyword SELECT, in any case of letters, the
\* cleaned statement begins with the keyword, what preceded it being dropped,
\* and has neither a final semicolon nor the marks of a code block.
C33_CleanedStartsWithSelect ==
    (/\ probe.op = "clean_sql_response"
     /\ probe.n >= 1
     /\ \E i \in 1..Len(probe.arg) : SelectAt(probe.arg, i)) =>
        /\ SelectAt(probe.first, 1)
        /\ ~endswith(probe.first, <<";">>)
        /\ ~contains(probe.first, <<"BT","BT","BT">>)

(***************************************************************************)
(* Two calls of query on one agent, each in a thread of its own.  Here pc, *)
(* state, result and calls hold one value per thread; calls[t] keeps, node *)
(* by node, what the collaborators answered to the run of thread t.        *)
(* get_database_schema is taken statement by statement, since the cache    *)
(* of the SQLTool is the one attribute the two runs both read and write.   *)
(***************************************************************************)
Threads == {"t1", "t2"}

\* every run working on the state of the first
StateOf_shared(t, states) == states["t1"]

\* the state graph.invoke keeps for the run of thread t
StateOf(t, states) == states[t]

\* what the collaborators of a node answered
Response(node, in) == [node |-> node, in |-> in]

\* the titles retrieve_documents goes by
RetrievalTitles(st) ==
    IF st.query_type = "HYBRID" THEN extract_titles_from_sql_results(st) ELSE <<>>

\* what the document store gives retrieve_documents
RetrievalOf(st, ids, in) ==
    IF RetrievalTitles(st) # <<>>
    THEN retrieve_documents_by_titles(RetrievalTitles(st), ids, in.outs)
    ELSE search(in.emb, in.store)

\* the node applied to the state st of a run, its collaborators answering in
NodeFn(node, st, in, ids) ==
    CASE node = "classify_query" -> classify_query(st, TRUE, in)
      [] node = "generate_sql" -> generate_sql(st, in.llm)
      [] node = "execute_sql" -> execute_sql(st, execute_query(st.sql_query, in).result)
      [] node = "retrieve_documents" -> retrieve_documents(st, TRUE, RetrievalOf(st, ids, in))
      [] node = "format_response" -> format_response(st, in)
      [] node = "handle_error" -> handle_error(st)

\* a run on its own: the nodes applied one after the other to a fresh state
RECURSIVE ReplayFrom(_, _, _)
ReplayFrom(st, log, ids) ==
    IF log = <<>> THEN st
    ELSE ReplayFrom(NodeFn(Head(log).node, st, Head(log).in, ids), Tail(log), ids)

\* if self.schema_cache:
CacheHit(cache) == ~cache.none /\ cache.text # <<>>

\* what get_database_schema returned to a thread
NotReturned == [returned |-> FALSE, text |-> <<>>]

ReturnedText(text) == [returned |-> TRUE, text |-> text]

\* the answers of the collaborators the two runs are played with
ParClassifierOutcomes == {Text(kSQL), Text(kRAG), Text(kHYBRID)}

ParSchemaOutcomes(schema) ==
    {o \in SchemaOutcomes : /\ o.kind = "ok" => o.schema = schema
                            /\ o.kind # "execute_error"}

ParSqlLlmOutcomes == {Text(SelectX), Raise(<<"connection refused">>)}

ParDbOutcomes ==
    {[kind |-> "ok", columns |-> <<"titulo">>,
      rows |-> << <<StrValue(AventurasGalacticas)>> >>, msg |-> <<>>],
     [kind |-> "connect_error", columns |-> <<>>, rows |-> <<>>,
      msg |-> <<"server closed the connection">>]}

ParStoreOutcomes(ids, top_k) ==
    {o \in StoreOutcomes(ids, top_k) :
        o.kind = "ok" => /\ \A i \in 1..Len(o.hits) : o.hits[i].distance = 9
                         /\ o.hits[1].id = Alpha}

ParRetrievalOutcomes(st, ids) ==
    IF RetrievalTitles(st) # <<>>
    THEN {[outs |-> outs, emb |-> [kind |-> "ok", msg |-> <<>>],
           store |-> [kind |-> "raise", hits |-> <<>>, msg |-> <<>>]] :
            outs \in [1..Len(RetrievalTitles(st)) ->
                        {o \in TitleOutcomes(ids) : /\ o.emb.kind = "ok"
                                                    /\ o.store \in ParStoreOutcomes(ids, 1)}]}
    ELSE {[outs |-> <<>>, emb |-> emb, store |-> store] :
            emb \in EmbOutcomes, store \in ParStoreOutcomes(ids, 3)}

ParConversationOutcomes ==
    {Text(<<" ", "There are 42 users.", "\n">>), Raise(<<"connection refused">>)}

\* one agent with its RAG tool, a database whose schema is probe.arg, and two
\* threads about to call query
InitPar ==
    /\ pc = [t \in Threads |-> "idle"]
    /\ state = [t \in Threads |-> NoState]
    /\ result = [t \in Threads |-> NoResult]
    /\ calls = [t \in Threads |-> <<>>]
    /\ runs = 0
    /\ rag_tool = TRUE
    /\ use_embeddings_classifier = FALSE
    /\ example_embeddings = FALSE
    /\ collection = {Alpha, <<"Aventuras", "_", "Galacticas">>}
    /\ schema_cache = NoSchemaCache
    /\ conns = 0
    /\ lastExec = NoExec(<<>>)
    /\ \E schema \in SchemaTexts :
          probe = [Probe("concurrent", schema) EXCEPT
                        !.ret = [t \in Threads |-> NotReturned]]

\* the node of thread t has run: st is the state it leaves, next the node the
\* edges lead to
Advance(t, node, in, st, next) ==
    /\ state' = [state EXCEPT ![t] = st]
    /\ calls' = [calls EXCEPT ![t] = Append(@, Response(node, in))]
    /\ pc' = [pc EXCEPT ![t] = next]

\* the two threads ask different questions
QueryOf(t) ==
    IF t = "t1" THEN <<"How many users are registered?">>
    ELSE <<"What is the most viewed movie about?">>

ParQuery(t) ==
    /\ pc[t] = "idle"
    /\ \E q \in {QueryOf(t)} : state' = [state EXCEPT ![t] = initial_state(q)]
    /\ calls' = [calls EXCEPT ![t] = <<>>]
    /\ runs' = runs + 1
    /\ pc' = [pc EXCEPT ![t] = "classify_query"]
    /\ UNCHANGED <<result, toolVars, schema_cache, conns, lastExec, probe>>

ParClassifyQuery(t) ==
    /\ pc[t] = "classify_query"
    /\ \E llm \in ParClassifierOutcomes :
         \E st \in {NodeFn("classify_query", StateOf(t, state), llm, collection)} :
            Advance(t, "classify_query", llm, st, ClassifyEdges(route_query(st)))
    /\ UNCHANGED <<result, runs, toolVars, schema_cache, conns, lastExec, probe>>

\* get_database_schema, the test of the cache: a hit returns the text cached,
\* a miss goes on to read the catalogue.  probe.n becomes 1 when the other
\* thread is reading the catalogue at that moment.
ParCheckSchemaCache(t) ==
    /\ pc[t] = "generate_sql"
    /\ IF CacheHit(schema_cache)
       THEN /\ probe' = [probe EXCEPT !.ret[t] = ReturnedText(schema_cache.text)]
            /\ pc' = [pc EXCEPT ![t] = "sql_llm"]
       ELSE /\ probe' = [probe EXCEPT !.n = IF \E u \in Threads \ {t} : pc[u] = "read_schema"
                                            THEN 1 ELSE @]
            /\ pc' = [pc EXCEPT ![t] = "read_schema"]
    /\ UNCHANGED <<state, result, runs, toolVars, schema_cache, conns, calls, lastExec>>

\* get_database_schema, from connect to the assignment of the cache, or to the
\* return of the except branch
ParReadSchema(t) ==
    /\ pc[t] = "read_schema"
    /\ \E db \in ParSchemaOutcomes(probe.arg) :
         \E g \in {get_database_schema(NoSchemaCache, db)} :
            /\ conns' = conns + g.leaked
            /\ IF g.raised
               THEN /\ pc' = [pc EXCEPT ![t] = "raised"]
                    /\ UNCHANGED <<schema_cache, probe>>
               ELSE IF db.kind = "ok"
               THEN /\ schema_cache' = g.cache
                    /\ pc' = [pc EXCEPT ![t] = "return_schema"]
                    /\ UNCHANGED probe
               ELSE /\ probe' = [probe EXCEPT !.ret[t] = ReturnedText(g.text)]
                    /\ pc' = [pc EXCEPT ![t] = "sql_llm"]
                    /\ UNCHANGED schema_cache
    /\ UNCHANGED <<state, result, runs, toolVars, calls, lastExec>>

\* get_database_schema: return self.schema_cache
ParReturnSchema(t) ==
    /\ pc[t] = "return_schema"
    /\ probe' = [probe EXCEPT !.ret[t] = ReturnedText(schema_cache.text)]
    /\ pc' = [pc EXCEPT ![t] = "sql_llm"]
    /\ UNCHANGED <<state, result, runs, toolVars, schema_cache, conns, calls, lastExec>>

\* _generate_sql from the prompt on
ParInvokeSqlLlm(t) ==
    /\ pc[t] = "sql_llm"
    /\ \E in \in {[schema |-> probe.ret[t].text, llm |-> llm] : llm \in ParSqlLlmOutcomes} :
         \E st \in {NodeFn("generate_sql", StateOf(t, state), in, collection)} :
            Advance(t, "generate_sql", in, st, GenerateEdges(check_sql_generation(st)))
    /\ UNCHANGED <<result, runs, toolVars, schema_cache, conns, lastExec, probe>>

ParExecuteSql(t) ==
    /\ pc[t] = "execute_sql"
    /\ \E db \in ParDbOutcomes :
         \E st \in {NodeFn("execute_sql", StateOf(t, state), db, collection)} :
            /\ Advance(t, "execute_sql", db, st, ExecuteEdges(check_sql_execution(st)))
            /\ conns' = conns + execute_query(StateOf(t, state).sql_query, db).leaked
    /\ UNCHANGED <<result, runs, toolVars, schema_cache, lastExec, probe>>

ParRetrieveDocuments(t) ==
    /\ pc[t] = "retrieve_documents"
    /\ \E in \in ParRetrievalOutcomes(StateOf(t, state), collection) :
         \E st \in {NodeFn("retrieve_documents", StateOf(t, state), in, collection)} :
            Advance(t, "retrieve_documents", in, st, "format_response")
    /\ UNCHANGED <<result, runs, toolVars, schema_cache, conns, lastExec, probe>>

ParFormatResponse(t) ==
    /\ pc[t] = "format_response"
    /\ \E llm \in ParConversationOutcomes :
         \E st \in {NodeFn("format_response", StateOf(t, state), llm, collection)} :
            Advance(t, "format_response", llm, st, "END")
    /\ UNCHANGED <<result, runs, toolVars, schema_cache, conns, lastExec, probe>>

ParHandleError(t) ==
    /\ pc[t] = "handle_error"
    /\ \E st \in {NodeFn("handle_error", StateOf(t, state), <<>>, collection)} :
          Advance(t, "handle_error", <<>>, st, "END")
    /\ UNCHANGED <<result, runs, toolVars, schema_cache, conns, lastExec, probe>>

\* query returns the dict built from the final state of its run
ParReturn(t) ==
    /\ pc[t] = "END"
    /\ result' = [result EXCEPT ![t] = final_result(StateOf(t, state))]
    /\ pc' = [pc EXCEPT ![t] = "returned"]
    /\ UNCHANGED <<state, runs, toolVars, schema_cache, conns, calls, lastExec, probe>>

\* the exception get_database_schema did not catch leaves query
ParRaised(t) ==
    /\ pc[t] = "raised"
    /\ pc' = [pc EXCEPT ![t] = "returned"]
    /\ UNCHANGED <<state, result, runs, toolVars, schema_cache, conns, calls, lastExec,
                   probe>>

NextPar ==
    \/ \E t \in Threads : ParQuery(t)
    \/ \E t \in Threads : ParClassifyQuery(t)
    \/ \E t \in Threads : ParCheckSchemaCache(t)
    \/ \E t \in Threads : ParReadSchema(t)
    \/ \E t \in Threads : ParReturnSchema(t)
    \/ \E t \in Threads : ParInvokeSqlLlm(t)
    \/ \E t \in Threads : ParExecuteSql(t)
    \/ \E t \in Threads : ParRetrieveDocuments(t)
    \/ \E t \in Threads : ParFormatResponse(t)
    \/ \E t \in Threads : ParHandleError(t)
    \/ \E t \in Threads : ParReturn(t)
    \/ \E t \in Threads : ParRaised(t)

SpecPar == InitPar /\ [][NextPar]_vars

\* the state a run on its own reaches from the query of thread t with the
\* answers thread t was given
Alone(t) ==
    ReplayFrom(initial_state(state[t].user_query), calls[t], collection)

\* C28: the state of a run is shared with no other run: every call of query
\* starts from a fresh state, all fields empty, and however the two runs
\* interleave the state of each, and the dict it returns, is what its own
\* query and the answers its own collaborators gave it make of it; only the
\* schema cache outlives a run.
C28_RunsDoNotInterfere ==
    \A t \in Threads :
        /\ pc[t] = "classify_query" =>
              /\ state[t] = initial_state(state[t].user_query)
              /\ calls[t] = <<>>
        /\ pc[t] # "idle" => state[t] = Alone(t)
        /\ result[t].present =>
              /\ pc[t] = "returned"
              /\ result[t] = final_result(Alone(t))

\* the two runs, their reads of the schema overlapping, have both returned:
\* an SQL answer to one query, a HYBRID answer to the other
C28_Witness ==
    /\ probe.n = 1
    /\ pc["t1"] = "returned" /\ pc["t2"] = "returned"
    /\ result["t1"].present /\ result["t2"].present
    /\ result["t1"].query_type = "SQL" /\ result["t2"].query_type = "HYBRID"
    /\ result["t1"].error = <<>> /\ result["t2"].error = <<>>
    /\ state["t1"].user_query # state["t2"].user_query
    /\ result["t2"].rag_results.success

\* C29: when the two runs call get_database_schema at the same time on an
\* empty cache, both return the same text, the schema being stable, and once
\* both have returned the cache holds that text; the cache never holds
\* anything but the whole description.
C29_ConcurrentSchemaReads ==
    /\ ~schema_cache.none => schema_cache.text = probe.arg
    /\ (probe.n = 1 /\ \A t \in Threads : probe.ret[t].returned) =>
          /\ \A t, u \in Threads : probe.ret[t].text = probe.ret[u].text
          /\ \A t \in Threads : schema_cache = [none |-> FALSE, text |-> probe.ret[t].text]
====
